---- MODULE Spec2Model ----
(***************************************************************************)
(* State-machine model of mini-swe-agent's DefaultAgent                    *)
(* (src/minisweagent/agents/default.py): the run loop, step(), query(),    *)
(* candidate sampling, verifier selection and action execution, with the   *)
(* model backend, the verifier and the environment as nondeterministic     *)
(* collaborators.                                                          *)
(*                                                                         *)
(* Costs are counted in integer units.  A model response is identified by  *)
(* the serial number of the query that produced it (qid), an action by the *)
(* response it was parsed from and its position.                           *)
(***************************************************************************)
EXTENDS Integers, Sequences, FiniteSets, TLC

\* ------------------------------------------------------------------ bounds
MaxSteps == 2          \* largest configured step_limit; steps of a run without one
MaxCostLimit == 2      \* largest configured cost_limit
MaxCandidates == 2     \* largest configured num_candidates
MaxFormatErrors == 1   \* FormatErrors the model raises in one run (bounded specs)
MaxCalls == 4          \* model queries a run may have made for another step to fit
MaxWindow == 3         \* conversation window kept by the liveness specification
MaxVerified == 3       \* most candidates handed to a verifier's select
MaxReward == 1         \* largest reward a reward model's output states
MaxScored == 2         \* most candidates scored with every outcome of every query
MaxInstances == 2      \* most instances of one batch, and most worker threads
MaxInterrupts == 2     \* most operator interrupts during one batch
MaxToolCalls == 2      \* most entries of one list of tool calls
MaxStretches == 2      \* most stretches (prose or action block) of one content
MaxQueries == 2        \* most queries of one interactive run
MaxActions == 2        \* most actions of one message in an interactive run
MaxNewLimit == 2       \* largest limit the user enters in an interactive run
MaxHistory == 4        \* most messages of a conversation whose steps are grouped

Max(a, b) == IF a >= b THEN a ELSE b
Min(a, b) == IF a <= b THEN a ELSE b

VARIABLES
    config,         \* AgentConfig (constant after construction)
    messages,       \* self.messages
    cost,           \* self.cost
    n_calls,        \* self.n_calls
    step_count,     \* self.step_count
    pc,             \* position of the run loop / step
    responses,      \* _sample_candidates: local list of responses
    committed,      \* query(): the message returned to execute_actions
    outputs,        \* execute_actions: outputs collected so far
    exc,            \* exception in flight out of step()
    saved,          \* trajectory last written by save()
    result,         \* value returned by run()
    hist,           \* history: what the current run and step have done so far
    unbounded,      \* TRUE in the liveness specification only (see AddMessages)
    vpc,            \* position of a verifier's select ("idle" while the agent runs)
    vin,            \* select(): the verifier's configuration and its arguments
    vout,           \* select(): what it has computed, returned or raised so far
    tasks,          \* RewardModelVerifier.select: the scoring task of each candidate
    stats,          \* GLOBAL_MODEL_STATS and the tasks that have updated it
    locals,         \* RewardModelVerifier.select: its result lists, by index
    batch,          \* swebench main: the pool, the futures, preds.json
    parser,         \* one call of an action parser: its input and its result
    session         \* InteractiveAgent: mode, the step under confirmation

agentVars == <<config, messages, cost, n_calls, step_count, pc, responses,
               committed, outputs, exc, saved, result, hist, unbounded>>

verifierVars == <<vpc, vin, vout, tasks, stats, locals>>

extVars == <<batch, parser, session>>

vars == <<agentVars, verifierVars, extVars>>

\* ------------------------------------------------------------ data shapes
\* no batch, no parser call and no interactive session is under way
NoBatch == [phase |-> "none"]
NoParser == [phase |-> "none"]
NoSession == [phase |-> "none"]

ExtIdle == batch = NoBatch /\ parser = NoParser /\ session = NoSession

NoOutput == [lines |-> <<>>, returncode |-> 0, exception_info |-> ""]

NoVerifier == [enabled |-> FALSE, type |-> "", selected_index |-> -1,
               candidates |-> <<>>]

\* every message carries the same keys; unused ones keep these defaults
BlankMessage ==
    [role |-> "", qid |-> 0, batched |-> FALSE, choice_index |-> -1, actions |-> <<>>,
     cost |-> 0, parse_error |-> FALSE, raw |-> "", choices |-> <<>>,
     exit_status |-> "", submission |-> <<>>, interrupt_type |-> "",
     output |-> NoOutput, verifier |-> NoVerifier]

NoException == [kind |-> "none", type |-> "", messages |-> <<>>]

\* the actions parsed from response qid (choice c, or -1), k of them
MkActions(qid, c, k) == [j \in 1..k |-> [qid |-> qid, choice |-> c, pos |-> j]]

\* ------------------------------------------------------------ exceptions
\* (faulty variant) the limits message carries its status as the submission
LimitsExceededMessageWithSubmission ==
    [BlankMessage EXCEPT !.role = "exit", !.exit_status = "LimitsExceeded",
                         !.submission = <<"LimitsExceeded">>]

\* _check_limits: the message carried by LimitsExceeded
LimitsExceededMessage ==
    [BlankMessage EXCEPT !.role = "exit", !.exit_status = "LimitsExceeded",
                         !.submission = <<>>]

\* the corrective message carried by a FormatError raised by the model
FormatErrorMessage ==
    [BlankMessage EXCEPT !.role = "user", !.interrupt_type = "FormatError"]

\* exception classes that are not InterruptAgentFlow, raised by collaborators
ExceptionTypes == {"RuntimeError", "ValueError"}

InterruptKinds == {"LimitsExceeded", "FormatError", "Submitted"}

Raise(kind, type, msgs) == [kind |-> kind, type |-> type, messages |-> msgs]

\* ----------------------------------------------------------- environment
Marker == "COMPLETE_TASK_AND_SUBMIT_FINAL_OUTPUT"

\* (faulty variant) what the command printed before the timeout is dropped
TimeoutOutputDiscarding(printed) ==
    [lines |-> <<>>, returncode |-> -1, exception_info |-> "timed out"]

\* execute(), lines 152-162: the output built when subprocess.run raises
\* TimeoutExpired after the command has printed `printed`
TimeoutOutput(printed) ==
    [lines |-> printed, returncode |-> -1, exception_info |-> "timed out"]

\* what execute may build: the command's output lines and return code, or
\* the output of a command that timed out after printing the marker
EnvOutputs ==
    { [lines |-> <<"hello", Marker>>, returncode |-> 0, exception_info |-> ""],
      [lines |-> <<Marker, "done">>, returncode |-> 0, exception_info |-> ""],
      [lines |-> <<Marker>>, returncode |-> 0, exception_info |-> ""],
      [lines |-> <<"blank", Marker, "done", "blank">>, returncode |-> 0,
       exception_info |-> ""],
      TimeoutOutput(<<Marker, "done">>) }

\* str.lstrip() followed by splitlines: leading whitespace-only lines vanish
RECURSIVE Lstrip(_)
Lstrip(lines) ==
    IF lines = <<>> THEN <<>>
    ELSE IF Head(lines) = "blank" THEN Lstrip(Tail(lines)) ELSE lines

\* _check_finished: does this output signal submission?
IsFinished(output) ==
    LET lines == Lstrip(output.lines)
    IN  lines # <<>> /\ Head(lines) = Marker /\ output.returncode = 0

\* (faulty variant) the submission keeps the marker line
SubmittedMessageWithMarker(output) ==
    [BlankMessage EXCEPT !.role = "exit", !.exit_status = "Submitted",
                         !.submission = Lstrip(output.lines)]

\* _check_finished: the exit message carried by Submitted
SubmittedMessage(output) ==
    [BlankMessage EXCEPT !.role = "exit", !.exit_status = "Submitted",
                         !.submission = Tail(Lstrip(output.lines))]

\* (faulty variant) the new messages replace the conversation
AddMessagesReplacing(msgs, new) == new

\* --------------------------------------------------------------- agent
\* add_messages.  The liveness specification keeps only the last MaxWindow
\* messages of the conversation (the loop reads nothing but the last one),
\* so that a run of unbounded length is a cycle of the state graph.
AddMessages(msgs, new) ==
    LET all == msgs \o new
    IN  IF unbounded /\ Len(all) > MaxWindow
        THEN SubSeq(all, Len(all) - MaxWindow + 1, Len(all))
        ELSE all

\* self.n_calls += 1 (saturating at MaxCalls in the liveness specification)
IncCalls(n) == IF unbounded /\ n >= MaxCalls THEN n ELSE n + 1

\* (faulty variant) the limits compared with < where the code has <=
LimitsBreachedStrict(cfg, steps, spent) ==
    \/ (0 < cfg.step_limit /\ cfg.step_limit < steps)
    \/ (0 < cfg.cost_limit /\ cfg.cost_limit < spent)

\* _check_limits: the condition under which LimitsExceeded is raised
LimitsBreached(cfg, steps, spent) ==
    \/ (0 < cfg.step_limit /\ cfg.step_limit <= steps)
    \/ (0 < cfg.cost_limit /\ cfg.cost_limit <= spent)

\* _sample_candidates: num_candidates = max(1, sampling_config.num_candidates)
NumCandidates(cfg) == Max(1, cfg.num_candidates)

\* serialize/save: the document written when output_path is set
Save(msgs, calls, spent, steps) ==
    IF config.output_path
    THEN [written |-> TRUE, messages |-> msgs,
          exit_status |-> IF msgs = <<>> THEN "" ELSE msgs[Len(msgs)].exit_status,
          submission |-> IF msgs = <<>> THEN <<>> ELSE msgs[Len(msgs)].submission,
          api_calls |-> calls, instance_cost |-> spent, step_count |-> steps]
    ELSE saved

NeverSaved ==
    [written |-> FALSE, messages |-> <<>>, exit_status |-> "",
     submission |-> <<>>, api_calls |-> 0, instance_cost |-> 0, step_count |-> 0]

\* run(): messages[-1].get("extra", {})
Extra(m) == [exit_status |-> m.exit_status, submission |-> m.submission,
             interrupt_type |-> m.interrupt_type]

NoResult == [exit_status |-> "", submission |-> <<>>, interrupt_type |-> ""]

\* run(): self.messages and self.messages[-1].get("role") == "exit"
LastIsExit(msgs) == msgs # <<>> /\ msgs[Len(msgs)].role = "exit"

\* history of the run: n_calls when the current query() began, how many
\* step() calls returned, how many FormatErrors the model raised, what the
\* batched query of this step did, what the verifier's select returned, the
\* output on which the environment raised Submitted, and the last event
NewHist == [step_calls |-> 0, steps_returned |-> 0, format_errors |-> 0,
            batch |-> "none", select_returned |-> 0, submit_output |-> NoOutput,
            last |-> "none", verifier_called |-> FALSE, step_len |-> 0,
            executed |-> <<>>]

\* (faulty variant) the step counter counts executed actions
CountStepPerAction(steps, message) == steps + Len(message.actions)

\* step(), line 169: self.step_count += 1
CountStep(steps, message) == steps + 1

\* (faulty variant) the top-up loop runs once more than needed
NeedsMoreCandidatesInclusive(resps, num) == Len(resps) <= num

\* _sample_candidates, line 276: while len(responses) < num_candidates
NeedsMoreCandidates(resps, num) == Len(resps) < num

\* (faulty variant) the flag read without its negation
SkipsInterruptInverted(e, cfg) ==
    e.kind = "FormatError" /\ cfg.add_format_error_to_conversation

\* run(), line 153: a FormatError that is not to be added to the conversation
SkipsInterrupt(e, cfg) ==
    e.kind = "FormatError" /\ ~cfg.add_format_error_to_conversation

\* (faulty variant) the fallback swallows whatever the batched query raises
SwallowedByFallbackAll(kind) == TRUE

\* _sample_candidates, lines 269-272: what the batched query raises is
\* re-raised when it is an InterruptAgentFlow and swallowed otherwise
SwallowedByFallback(kind) == kind = "Exception"

\* responses[i] for a Python list: negative i counts from the end
PyInRange(seq, i) == -Len(seq) <= i /\ i < Len(seq)
PyIndex(seq, i) == IF i < 0 THEN seq[Len(seq) + i + 1] ELSE seq[i + 1]

\* -------------------------------------------------------------- sampling
\* what one model response may carry: extra.cost (in cost units) and the
\* number of actions the model parsed from it
ResponseKinds == { [cost |-> 0, n |-> 1], [cost |-> 1, n |-> 0],
                   [cost |-> 1, n |-> 2] }

\* the same for a response to a batched query (actions are those of choice 0)
BatchedKinds == { [cost |-> 0, n |-> 0], [cost |-> 1, n |-> 1] }

\* a response of model.query without n: its actions are parsed by the model
SingleResponse(qid, c, k) ==
    [BlankMessage EXCEPT !.role = "assistant", !.qid = qid, !.cost = c,
                         !.actions = MkActions(qid, -1, k)]

\* one entry of raw_response["choices"] as _parse_actions_from_choice sees it:
\* n actions parse, and err tells whether a parse error is reported
ChoiceKinds == { [n |-> 1, err |-> FALSE], [n |-> 0, err |-> TRUE] }

\* the choice lists a batched response may carry when num = N were asked for:
\* fewer than N, exactly N, or one more than N
ChoiceLists(num) ==
    UNION { [1..len -> ChoiceKinds] : len \in 1..num }
    \cup { Append(l, [n |-> 1, err |-> FALSE]) : l \in [1..num -> ChoiceKinds] }

\* how extra.response of a batched response looks to _split_n_response:
\* "choices" (a non-empty list), "unsplittable" (not a dict, or no choices),
\* "raises" (a choice whose parsing raises a generic exception)
RawShapes == {"choices", "unsplittable", "raises"}

\* a response of model.query(n = N)
BatchedResponse(qid, c, k, shape, choices) ==
    [BlankMessage EXCEPT !.role = "assistant", !.qid = qid, !.cost = c,
                         !.actions = MkActions(qid, -1, k),
                         !.batched = TRUE, !.raw = shape, !.choices = choices]

\* _make_choice_response (idx is 0-based)
MakeChoiceResponse(base, choice, idx) ==
    LET parsed == MkActions(base.qid, idx, choice.n)
    IN  [base EXCEPT !.choice_index = idx,
                     !.actions = IF parsed = <<>> /\ idx = 0
                                 THEN base.actions ELSE parsed,
                     !.parse_error = choice.err]

\* (faulty variant) every choice of the batched response becomes a candidate
SplitNResponseNoTruncate(response, num_candidates) ==
    IF response.raw # "choices" \/ response.choices = <<>>
    THEN <<>>
    ELSE [i \in 1..Len(response.choices) |->
             MakeChoiceResponse(response, response.choices[i], i - 1)]

\* _split_n_response, for a response whose choices can be walked
SplitNResponse(response, num_candidates) ==
    IF response.raw # "choices" \/ response.choices = <<>>
    THEN <<>>
    ELSE [i \in 1..Min(Len(response.choices), num_candidates) |->
             MakeChoiceResponse(response, response.choices[i], i - 1)]

\* _sample_candidates, lines 264-274: the responses a batched response gives
BatchResponses(batched, num_candidates) ==
    LET split == IF batched.raw = "raises" THEN <<>>
                 ELSE SplitNResponse(batched, num_candidates)
    IN  IF split = <<>> THEN <<batched>> ELSE split

\* (faulty variant) the candidate's parse error is not copied into its info
BuildCandidateInfoNoParseError(response, idx) ==
    [index |-> idx, qid |-> response.qid, choice_index |-> response.choice_index,
     action |-> IF response.actions = <<>> THEN <<>> ELSE <<response.actions[1]>>,
     actions |-> response.actions, n_actions |-> Len(response.actions),
     parse_error |-> FALSE]

\* _build_candidate_info (idx is 0-based)
BuildCandidateInfo(response, idx) ==
    [index |-> idx, qid |-> response.qid, choice_index |-> response.choice_index,
     action |-> IF response.actions = <<>> THEN <<>> ELSE <<response.actions[1]>>,
     actions |-> response.actions, n_actions |-> Len(response.actions),
     parse_error |-> response.parse_error]

CandidateInfos(resps) == [i \in 1..Len(resps) |-> BuildCandidateInfo(resps[i], i - 1)]

\* --------------------------------------------------------------- verifier
VerifierTypes == {"first_valid", "llm", "reward_model"}

\* (faulty variant) the verifier's index is used as returned
ClampIndexMissing(raw, n) == raw

\* query(), line 210: selected_index = max(0, min(selected_index, len - 1))
ClampIndex(raw, n) == Max(0, Min(raw, n - 1))

\* _attach_verifier_metadata
AttachVerifierMetadata(response, metadata) == [response EXCEPT !.verifier = metadata]

\* ------------------------------------------------------------ observation
\* format_observation_messages: one observation per executed action
FormatObservationMessages(message, outs) ==
    [i \in 1..Min(Len(message.actions), Len(outs)) |->
        [BlankMessage EXCEPT !.role = "tool", !.qid = message.qid,
                             !.actions = <<message.actions[i]>>,
                             !.output = outs[i]]]

\* ============================================================== verifiers
\* ---------------------------------------------------------- their inputs
\* candidate["action"]: the first action's command, None without actions;
\* Python takes None and the empty string for false
NoAction == "<None>"
ActionValues == {NoAction, "", "ls"}
Truthy(action) == action \notin {NoAction, ""}

\* the candidate dicts of _build_candidate_info as the verifiers read them
VerifierCandidates(n) ==
    { [i \in 1..n |-> [index |-> i - 1, action |-> acts[i]]] :
        acts \in [1..n -> ActionValues] }

\* a reward as _parse_reward returns it: None or a number
NoReward == [parsed |-> FALSE, val |-> 0]
Reward(x) == [parsed |-> TRUE, val |-> x]
RewardValues == {NoReward} \cup {Reward(x) : x \in 0..MaxReward}

\* one group matched by a configured regex in a model's output: text that
\* the number conversion accepts (with its value) or rejects
Digits(x) == [numeric |-> TRUE, val |-> x]
NotDigits == [numeric |-> FALSE, val |-> 0]

\* VerifierConfig.fallback and VerifierConfig.selection_index_base
Fallbacks == {"first_candidate", "first_valid"}
IndexBases == {0, 1}

NoInput ==
    [kind |-> "none", candidates |-> <<>>, fallback |-> "first_candidate",
     selection_index_base |-> 1, rewards |-> <<>>]

NoSelection ==
    [status |-> "none", selected_index |-> -1, queries |-> 0, matches |-> <<>>,
     exc_type |-> "", metadata |-> [verifier_type |-> ""]]

NoStats == [cost |-> 0, n_calls |-> 0, updated_by |-> {}]

\* GLOBAL_MODEL_STATS.add(response_cost), as query_verifier_text calls it: the
\* costs passed, the number of calls, and who made them
StatsAdd(st, c, who) ==
    [cost |-> st.cost + c, n_calls |-> st.n_calls + 1,
     updated_by |-> st.updated_by \cup {who}]

\* what model._calculate_cost may report for one verifier query
QueryCosts == {0, 1}

NoLocals == [rewards |-> <<>>, raw_outputs |-> <<>>, response_costs |-> <<>>,
             exc |-> [task |-> 0, attempt |-> 0]]

\* no verifier call is in progress: the agent specifications stay here
VerifierIdle ==
    /\ vpc = "idle"
    /\ vin = NoInput
    /\ vout = NoSelection
    /\ tasks = <<>>
    /\ stats = NoStats
    /\ locals = NoLocals

\* ------------------------------------------------------------ first_valid
\* FirstValidVerifier.select, lines 13-17: scan from position i on
RECURSIVE FirstValidScan(_, _)
FirstValidScan(candidates, i) ==
    IF i > Len(candidates) THEN 0
    ELSE IF Truthy(candidates[i].action) THEN candidates[i].index
    ELSE FirstValidScan(candidates, i + 1)

\* (faulty variant) the scan does not stop at the first valid candidate
RECURSIVE FirstValidIndexLast(_)
FirstValidIndexLast(candidates) ==
    IF candidates = <<>> THEN 0
    ELSE IF Truthy(candidates[Len(candidates)].action)
         THEN candidates[Len(candidates)].index
    ELSE FirstValidIndexLast(SubSeq(candidates, 1, Len(candidates) - 1))

FirstValidIndex(candidates) == FirstValidScan(candidates, 1)

\* LLMVerifier._fallback_index and RewardModelVerifier._select_best, lines 180-184
FallbackIndex(candidates, fallback) ==
    IF fallback = "first_valid" THEN FirstValidScan(candidates, 1) ELSE 0

\* -------------------------------------------------------------------- llm
\* what re.findall(selection_regex, content) may give for a judge's output:
\* no match, one match or two, each a number around the valid range or text
\* that is not a number
MatchValues(n) == {Digits(x) : x \in -1..(n + 2)} \cup {NotDigits}
JudgeMatches(n) ==
    {<<>>} \cup {<<m>> : m \in MatchValues(n)}
    \cup {<<m1, m2>> : m1 \in MatchValues(n), m2 \in MatchValues(n)}

\* (faulty variant) the first match wins
FirstMatch(matches) == matches[1]

\* LLMVerifier.select, line 43: raw_index = matches[-1]
LastMatch(matches) == matches[Len(matches)]

\* LLMVerifier.select, line 48: 0 <= selected_index < len(candidates)
InCandidateRange(i, candidates) == 0 <= i /\ i < Len(candidates)

\* ----------------------------------------------------------- reward_model
\* (faulty variant) a later candidate with an equal reward replaces the best
RewardGe(a, b) == a.val >= b.val

\* Python's reward > best_value on two parsed rewards
RewardGt(a, b) == a.val > b.val

\* _select_best, lines 170-177: the scan from position i on; best_index is
\* -1 and best_value is NoReward while both are None
RECURSIVE BestScan(_, _, _, _)
BestScan(rewards, i, best_index, best_value) ==
    IF i > Len(rewards) THEN best_index
    ELSE IF ~rewards[i].parsed THEN BestScan(rewards, i + 1, best_index, best_value)
    ELSE IF ~best_value.parsed \/ RewardGt(rewards[i], best_value)
         THEN BestScan(rewards, i + 1, i - 1, rewards[i])
    ELSE BestScan(rewards, i + 1, best_index, best_value)

\* RewardModelVerifier._select_best
SelectBest(rewards, candidates, fallback) ==
    LET best_index == BestScan(rewards, 1, -1, NoReward)
    IN  IF best_index # -1 THEN best_index ELSE FallbackIndex(candidates, fallback)

\* ------------------------------------------------- the selection functions
\* the calls of select on n candidates the selection specification starts from
SelectInputs(n) ==
    { [kind |-> "first_valid", candidates |-> c,
       fallback |-> "first_candidate", selection_index_base |-> 1,
       rewards |-> <<>>] : c \in VerifierCandidates(n) }
    \cup { [kind |-> "llm", candidates |-> c, fallback |-> f,
            selection_index_base |-> b, rewards |-> <<>>] :
             c \in VerifierCandidates(n), f \in Fallbacks, b \in IndexBases }
    \cup { [kind |-> "select_best", candidates |-> c, fallback |-> f,
            selection_index_base |-> 1, rewards |-> r] :
             c \in VerifierCandidates(n), f \in Fallbacks,
             r \in [1..n -> RewardValues] }

\* FirstValidVerifier.select
FirstValidSelect ==
    /\ vpc = "ready"
    /\ vin.kind = "first_valid"
    /\ vout' = [vout EXCEPT !.status = "returned",
                            !.selected_index = FirstValidIndex(vin.candidates),
                            !.metadata = [verifier_type |-> "first_valid"]]
    /\ vpc' = "done"
    /\ UNCHANGED <<agentVars, extVars, vin, tasks, stats, locals>>

\* LLMVerifier.select, lines 19-38: the one query of the judge model, which
\* returns an output or raises
LLMQuery ==
    /\ vpc = "ready"
    /\ vin.kind = "llm"
    /\ \/ /\ vout' = [vout EXCEPT !.status = "raised", !.queries = @ + 1,
                                  !.exc_type = "RuntimeError"]
          /\ vpc' = "done"
          /\ UNCHANGED stats
       \/ \E m \in JudgeMatches(Len(vin.candidates)), c \in QueryCosts :
             /\ vout' = [vout EXCEPT !.queries = @ + 1, !.matches = m]
             /\ stats' = StatsAdd(stats, c, "judge")
             /\ vpc' = "parse"
    /\ UNCHANGED <<agentVars, extVars, vin, tasks, locals>>

\* LLMVerifier.select, lines 39-65: parse the index, fall back, return
LLMParse ==
    /\ vpc = "parse"
    /\ vin.kind = "llm"
    /\ IF vout.matches # <<>> /\ ~LastMatch(vout.matches).numeric
       THEN \* line 46: int(raw_index) raises ValueError
            vout' = [vout EXCEPT !.status = "raised", !.exc_type = "ValueError"]
       ELSE LET parsed == vout.matches # <<>>
                raw_index == IF parsed THEN LastMatch(vout.matches).val ELSE 0
                selected_index == raw_index - vin.selection_index_base
                final == IF parsed /\ InCandidateRange(selected_index, vin.candidates)
                         THEN selected_index
                         ELSE FallbackIndex(vin.candidates, vin.fallback)
            IN  vout' = [vout EXCEPT !.status = "returned",
                                     !.selected_index = final,
                                     !.metadata = [verifier_type |-> "llm",
                                                   raw_output |-> vout.matches,
                                                   has_raw_index |-> parsed,
                                                   raw_index |-> raw_index,
                                                   parsed_index |-> final]]
    /\ vpc' = "done"
    /\ UNCHANGED <<agentVars, extVars, vin, tasks, stats, locals>>

\* RewardModelVerifier._select_best applied to a list of parsed rewards
RewardSelectBest ==
    /\ vpc = "ready"
    /\ vin.kind = "select_best"
    /\ vout' = [vout EXCEPT !.status = "returned",
                            !.selected_index =
                                SelectBest(vin.rewards, vin.candidates, vin.fallback),
                            !.metadata = [verifier_type |-> "reward_model"]]
    /\ vpc' = "done"
    /\ UNCHANGED <<agentVars, extVars, vin, tasks, stats, locals>>

\* ------------------------------------------- RewardModelVerifier.select
\* ThreadPoolExecutor(max_workers=min(len(candidates), 8))
PoolCap == 8

\* for attempt in range(3)
MaxAttempts == 3

\* (faulty variant) the pool runs every submitted task at once
MaxWorkersUnbounded(n) == n

\* max_workers of the pool for n candidates
MaxWorkers(n) == Min(n, PoolCap)

\* (faulty variant) one more attempt after the third
HasAttemptsLeftOnceMore(made) == made <= MaxAttempts

\* _score_candidate, line 52: the loop goes on after `made` attempts
HasAttemptsLeft(made) == made < MaxAttempts

\* (faulty variant) results are stored in the order of completion
ResultSlotByCompletion(idx, k) == k + 1

\* lines 82-89: the slot of the result lists written for the future of
\* candidate idx, the k + 1st to complete (positions are 1-based here)
ResultSlot(idx, k) == idx

NoTaskException == [task |-> 0, attempt |-> 0]

\* the future of one candidate: where it is, the attempts made, what its
\* successful query returned, the exception of its last failed attempt
NewTask ==
    [state |-> "new", submits |-> 0, attempts |-> 0, reward |-> NoReward,
     content |-> [task |-> 0, attempt |-> 0], cost |-> 0, exc |-> NoTaskException]

\* the candidates scored: the first has an empty action, the others a command
ScoredCandidates(n) ==
    [i \in 1..n |-> [index |-> i - 1, action |-> IF i = 1 THEN "" ELSE "ls"]]

\* the sampled responses those candidates were built from
ScoredResponses(n) ==
    [i \in 1..n |-> SingleResponse(i, IF i = 1 THEN 0 ELSE 1,
                                   IF i = 1 THEN 0 ELSE 1)]

\* self.cost after these responses were sampled one query each
RECURSIVE SumCosts(_)
SumCosts(resps) ==
    IF resps = <<>> THEN 0 ELSE Head(resps).cost + SumCosts(Tail(resps))

\* the lists the pool is exercised on: up to MaxScored candidates with every
\* outcome of every query, and one list longer than the pool's cap
ScoredSizes == (1..MaxScored) \cup {PoolCap + 1}

\* whether every outcome of a query is explored for a list of n candidates;
\* for a longer list the reward model answers at once, without a reward
EveryOutcome(n) == n <= MaxScored

TasksIn(states) == {i \in 1..Len(tasks) : tasks[i].state \in states}

\* lines 71-77: the result lists are allocated and the pool is created
RewardStart ==
    /\ vpc = "ready"
    /\ vin.kind = "reward_model"
    /\ LET n == Len(vin.candidates)
       IN  /\ tasks' = [i \in 1..n |-> NewTask]
           /\ locals' = [rewards |-> [i \in 1..n |-> NoReward],
                         raw_outputs |-> [i \in 1..n |-> [task |-> 0, attempt |-> 0]],
                         response_costs |-> [i \in 1..n |-> 0],
                         exc |-> NoTaskException]
    /\ vpc' = "submit"
    /\ UNCHANGED <<agentVars, extVars, vin, vout, stats>>

\* lines 78-80: executor.submit for the next candidate, in index order
RewardSubmit ==
    /\ vpc = "submit"
    /\ TasksIn({"new"}) # {}
    /\ LET i == CHOOSE j \in TasksIn({"new"}) : \A k \in TasksIn({"new"}) : j <= k
       IN  tasks' = [tasks EXCEPT ![i].state = "queued", ![i].submits = @ + 1]
    /\ UNCHANGED <<agentVars, extVars, vpc, vin, vout, stats, locals>>

\* line 81: every candidate is submitted; as_completed starts
RewardAwait ==
    /\ vpc = "submit"
    /\ TasksIn({"new"}) = {}
    /\ vpc' = "collect"
    /\ UNCHANGED <<agentVars, extVars, vin, vout, tasks, stats, locals>>

\* the pool: a free worker takes the oldest queued task
TaskStart ==
    /\ vpc \in {"submit", "collect", "join"}
    /\ TasksIn({"queued"}) # {}
    /\ Cardinality(TasksIn({"running"})) < MaxWorkers(Len(vin.candidates))
    /\ LET i == CHOOSE j \in TasksIn({"queued"}) : \A k \in TasksIn({"queued"}) : j <= k
       IN  tasks' = [tasks EXCEPT ![i].state = "running"]
    /\ UNCHANGED <<agentVars, extVars, vpc, vin, vout, stats, locals>>

\* _score_candidate, lines 53-64: an attempt of task i succeeds; the query
\* adds its cost to the statistics and the task returns
TaskAttemptSucceeds(i) ==
    /\ tasks[i].state = "running"
    /\ HasAttemptsLeft(tasks[i].attempts)
    /\ \E r \in RewardValues, c \in QueryCosts :
          /\ ~EveryOutcome(Len(vin.candidates)) => (r = NoReward /\ c = 0)
          /\ tasks' = [tasks EXCEPT ![i].state = "finished",
                                    ![i].attempts = @ + 1,
                                    ![i].reward = r,
                                    ![i].content = [task |-> i,
                                                    attempt |-> tasks[i].attempts + 1],
                                    ![i].cost = c]
          /\ stats' = StatsAdd(stats, c, i)
    /\ UNCHANGED <<agentVars, extVars, vpc, vin, vout, locals>>

\* _score_candidate, lines 65-69: an attempt of task i raises; the task
\* tries again or, after the last attempt, raises the last exception
TaskAttemptRaises(i) ==
    /\ tasks[i].state = "running"
    /\ HasAttemptsLeft(tasks[i].attempts)
    /\ EveryOutcome(Len(vin.candidates))
    /\ LET made == tasks[i].attempts + 1
       IN  tasks' = [tasks EXCEPT ![i].attempts = made,
                                  ![i].exc = [task |-> i, attempt |-> made],
                                  ![i].state = IF HasAttemptsLeft(made)
                                               THEN "running" ELSE "failed"]
    /\ UNCHANGED <<agentVars, extVars, vpc, vin, vout, stats, locals>>

\* lines 81-89: as_completed yields the future of candidate i, which
\* returned: its values are stored in the result lists
RewardCollect(i) ==
    /\ vpc = "collect"
    /\ tasks[i].state = "finished"
    /\ LET slot == ResultSlot(i, Cardinality(TasksIn({"collected"})))
       IN  locals' = [locals EXCEPT !.rewards[slot] = tasks[i].reward,
                                    !.raw_outputs[slot] = tasks[i].content,
                                    !.response_costs[slot] = tasks[i].cost]
    /\ tasks' = [tasks EXCEPT ![i].state = "collected"]
    /\ UNCHANGED <<agentVars, extVars, vpc, vin, vout, stats>>

\* line 83: as_completed yields the future of candidate i, which raised:
\* future.result() raises its exception out of the loop
RewardCollectRaises(i) ==
    /\ vpc = "collect"
    /\ tasks[i].state = "failed"
    /\ locals' = [locals EXCEPT !.exc = tasks[i].exc]
    /\ vpc' = "join"
    /\ UNCHANGED <<agentVars, extVars, vin, vout, tasks, stats>>

\* line 77: leaving the with block waits for every submitted task, then the
\* exception leaves select
RewardRaise ==
    /\ vpc = "join"
    /\ TasksIn({"queued", "running"}) = {}
    /\ vout' = [vout EXCEPT !.status = "raised", !.exc_type = "RuntimeError"]
    /\ vpc' = "done"
    /\ UNCHANGED <<agentVars, extVars, vin, tasks, stats, locals>>

\* lines 90-100: every future was collected; select the best and return
RewardReturn ==
    /\ vpc = "collect"
    /\ TasksIn({"collected"}) = 1..Len(tasks)
    /\ vout' = [vout EXCEPT
                  !.status = "returned",
                  !.selected_index =
                      SelectBest(locals.rewards, vin.candidates, vin.fallback),
                  !.metadata = [verifier_type |-> "reward_model",
                                rewards |-> locals.rewards,
                                raw_outputs |-> locals.raw_outputs,
                                response_costs |-> locals.response_costs]]
    /\ vpc' = "done"
    /\ UNCHANGED <<agentVars, extVars, vin, tasks, stats, locals>>

\* DefaultAgent.query, lines 196-223, after the reward model's select: the
\* clamped response is committed, or the exception leaves query()
\* (faulty variant) what the verifier spent is added to the agent's cost
CostAfterSelectCounting(spent, verifier_spent) == spent + verifier_spent

\* query(), lines 196-218: self.cost is not touched by the selection
CostAfterSelect(spent, verifier_spent) == spent

QueryAfterRewardSelect ==
    /\ vpc = "done"
    /\ vin.kind = "reward_model"
    /\ pc = "select"
    /\ IF vout.status = "returned"
       THEN LET selected_index == ClampIndex(vout.selected_index, Len(responses))
                metadata == [enabled |-> TRUE, type |-> "reward_model",
                             selected_index |-> selected_index,
                             candidates |-> CandidateInfos(responses)]
                message == AttachVerifierMetadata(
                               PyIndex(responses, selected_index), metadata)
            IN  /\ messages' = AddMessages(messages, <<message>>)
                /\ committed' = message
                /\ pc' = "execute"
                /\ vpc' = "committed"
                /\ UNCHANGED exc
       ELSE /\ exc' = Raise("Exception", vout.exc_type, <<>>)
            /\ pc' = "handle"
            /\ vpc' = "propagated"
            /\ UNCHANGED <<messages, committed>>
    /\ cost' = CostAfterSelect(cost, stats.cost)
    /\ UNCHANGED <<config, n_calls, step_count, responses, outputs, saved,
                   result, hist, unbounded, vin, vout, tasks, stats, locals, extVars>>

\* ------------------------------------------------- swebench batch mode
\* one instance of the batch and its future: where the future is, where
\* process_instance is, what it has computed, and when it started
NewInstance ==
    [state |-> "new", at |-> "none", agent |-> FALSE, exit_status |-> "",
     result |-> [of |-> 0, text |-> "none"], started_after |-> "none"]

\* what agent.run hands back for instance i: a submission of its own
Submission(i) == [of |-> i, text |-> "patch"]

\* the result recorded for an instance whose processing raised: ""
NoSubmission == [of |-> 0, text |-> ""]

\* preds.json and the trajectory files: nothing recorded for an instance
NoEntry == [present |-> FALSE, instance_id |-> 0, result |-> NoSubmission]

\* a stale entry left by an earlier batch
StaleEntry(i) == [present |-> TRUE, instance_id |-> i,
                  result |-> [of |-> i, text |-> "stale"]]

InstancesIn(states) == {i \in 1..Len(batch.inst) : batch.inst[i].state \in states}

\* the future of the instance is over: it returned, raised or was cancelled
Over == {"done", "raised", "cancelled"}

\* main, lines 298-305: the batch begins; the pool is created
BatchInputs ==
    { [phase |-> "submit", workers |-> w, inst |-> [i \in 1..n |-> NewInstance],
       preds |-> [i \in 1..n |-> IF stale THEN StaleEntry(i) ELSE NoEntry],
       traj |-> [i \in 1..n |-> NoEntry],
       collected |-> {}, cancel_next |-> 1, interrupts |-> 0,
       pending_at_interrupt |-> {}, logged |-> {}] :
      n \in 1..MaxInstances, w \in 1..MaxInstances, stale \in BOOLEAN }

\* lines 300-305: executor.submit for the next instance, or the end of the
\* dict comprehension
BatchSubmit ==
    /\ batch.phase = "submit"
    /\ IF InstancesIn({"new"}) = {}
       THEN batch' = [batch EXCEPT !.phase = "collect"]
       ELSE LET i == CHOOSE j \in InstancesIn({"new"}) :
                        \A k \in InstancesIn({"new"}) : j <= k
            IN  batch' = [batch EXCEPT !.inst[i].state = "queued"]
    /\ UNCHANGED <<agentVars, verifierVars, parser, session>>

\* the pool: a free worker takes the oldest queued future and calls
\* process_instance
WorkerStart ==
    /\ batch.phase \in {"submit", "collect", "cancel", "collect_again", "unwind"}
    /\ InstancesIn({"queued"}) # {}
    /\ Cardinality(InstancesIn({"running"})) < batch.workers
    /\ LET i == CHOOSE j \in InstancesIn({"queued"}) :
                    \A k \in InstancesIn({"queued"}) : j <= k
       IN  batch' = [batch EXCEPT !.inst[i].state = "running",
                                  !.inst[i].at = "prepare",
                                  !.inst[i].started_after =
                                      IF batch.interrupts = 0 THEN "none"
                                      ELSE batch.phase]
    /\ UNCHANGED <<agentVars, verifierVars, parser, session>>

\* process_instance, lines 153-167: the old entry and trajectory of the
\* instance are removed and the model is built, or get_model raises
InstancePrepare(i) ==
    /\ batch.inst[i].state = "running"
    /\ batch.inst[i].at = "prepare"
    /\ \/ batch' = [batch EXCEPT !.preds[i] = NoEntry, !.traj[i] = NoEntry,
                                 !.inst[i].at = "environment"]
       \/ batch' = [batch EXCEPT !.preds[i] = NoEntry, !.traj[i] = NoEntry,
                                 !.inst[i].state = "raised",
                                 !.inst[i].at = "prepare_raised"]
    /\ UNCHANGED <<agentVars, verifierVars, parser, session>>

\* lines 169-177, 181-184: the environment starts, or raises and the
\* exception is caught (no agent was built)
InstanceEnvironment(i) ==
    /\ batch.inst[i].state = "running"
    /\ batch.inst[i].at = "environment"
    /\ \/ batch' = [batch EXCEPT !.inst[i].at = "run", !.inst[i].agent = TRUE]
       \/ batch' = [batch EXCEPT !.inst[i].at = "record",
                                 !.inst[i].exit_status = "RuntimeError",
                                 !.inst[i].result = NoSubmission]
    /\ UNCHANGED <<agentVars, verifierVars, parser, session>>

\* lines 178-184: agent.run returns its exit message's extra, or raises and
\* the exception is caught
InstanceRun(i) ==
    /\ batch.inst[i].state = "running"
    /\ batch.inst[i].at = "run"
    /\ \/ batch' = [batch EXCEPT !.inst[i].at = "save",
                                 !.inst[i].exit_status = "Submitted",
                                 !.inst[i].result = Submission(i)]
       \/ batch' = [batch EXCEPT !.inst[i].at = "save",
                                 !.inst[i].exit_status = "RuntimeError",
                                 !.inst[i].result = NoSubmission]
    /\ UNCHANGED <<agentVars, verifierVars, parser, session>>

\* lines 185-199: agent.save writes the trajectory, or raises out of the
\* finally block and out of process_instance
InstanceSave(i) ==
    /\ batch.inst[i].state = "running"
    /\ batch.inst[i].at = "save"
    /\ \/ batch' = [batch EXCEPT !.inst[i].at = "record",
                                 !.traj[i] = [present |-> TRUE, instance_id |-> i,
                                              result |-> batch.inst[i].result]]
       \/ batch' = [batch EXCEPT !.inst[i].state = "raised",
                                 !.inst[i].at = "save_raised"]
    /\ UNCHANGED <<agentVars, verifierVars, parser, session>>

\* lines 200-201 and update_preds_file, lines 109-120: under the file lock
\* the entry of the instance is written; process_instance returns
InstanceRecord(i) ==
    /\ batch.inst[i].state = "running"
    /\ batch.inst[i].at = "record"
    /\ batch' = [batch EXCEPT !.preds[i] = [present |-> TRUE, instance_id |-> i,
                                            result |-> batch.inst[i].result],
                              !.inst[i].state = "done",
                              !.inst[i].at = "returned"]
    /\ UNCHANGED <<agentVars, verifierVars, parser, session>>

\* (faulty variant) a future that raised makes the loop cancel what waits
FuturesAfterExceptionCancelling(inst) ==
    [i \in 1..Len(inst) |->
        IF inst[i].state = "queued" THEN [inst[i] EXCEPT !.state = "cancelled"]
        ELSE inst[i]]

\* process_futures, lines 293-296: the exception of a future is logged; the
\* other futures are left as they are
FuturesAfterException(inst) == inst

\* process_futures, lines 288-296: as_completed yields the future of
\* instance i; its exception, if any, is caught and logged
BatchCollect(i) ==
    /\ batch.phase \in {"collect", "collect_again"}
    /\ i \in InstancesIn(Over) \ batch.collected
    /\ batch' = [batch EXCEPT
                   !.collected = @ \cup {i},
                   !.logged = IF batch.inst[i].state = "raised" THEN @ \cup {i} ELSE @,
                   !.inst = IF batch.inst[i].state = "raised"
                            THEN FuturesAfterException(@) ELSE @]
    /\ UNCHANGED <<agentVars, verifierVars, parser, session>>

\* lines 299, 307, 313: every future was yielded; the with block is left
BatchFinish ==
    /\ batch.phase \in {"collect", "collect_again"}
    /\ batch.collected = 1..Len(batch.inst)
    /\ batch' = [batch EXCEPT !.phase = "finished"]
    /\ UNCHANGED <<agentVars, verifierVars, parser, session>>

\* the operator interrupts: KeyboardInterrupt is raised in the main thread.
\* Inside the try block of line 306 the first one reaches the handler of
\* line 308; anywhere else in the with block it leaves the block, whose exit
\* waits for the pool
BatchInterrupt ==
    /\ batch.phase \in {"submit", "collect", "cancel", "collect_again"}
    /\ batch.interrupts < MaxInterrupts
    /\ batch' = [batch EXCEPT
                   !.interrupts = @ + 1,
                   !.pending_at_interrupt =
                       IF batch.interrupts = 0 THEN InstancesIn({"new", "queued"})
                       ELSE @,
                   !.phase = IF batch.phase = "collect" THEN "cancel" ELSE "unwind"]
    /\ UNCHANGED <<agentVars, verifierVars, parser, session>>

\* lines 310-313: the handler cancels the next future if it is neither
\* running nor done, then calls process_futures again
BatchCancel ==
    /\ batch.phase = "cancel"
    /\ LET k == batch.cancel_next
       IN  IF k > Len(batch.inst)
           THEN batch' = [batch EXCEPT !.phase = "collect_again"]
           ELSE batch' = [batch EXCEPT
                            !.cancel_next = k + 1,
                            !.inst[k].state = IF @ = "queued" THEN "cancelled" ELSE @]
    /\ UNCHANGED <<agentVars, verifierVars, parser, session>>

\* line 299: leaving the with block on an exception waits for every
\* submitted future that is not cancelled, then the interrupt leaves main
BatchUnwind ==
    /\ batch.phase = "unwind"
    /\ InstancesIn({"queued", "running"}) = {}
    /\ batch' = [batch EXCEPT !.phase = "aborted"]
    /\ UNCHANGED <<agentVars, verifierVars, parser, session>>

\* ---------------------------------------------------------------- actions
\* a one-step configuration; the families below vary it along the options
\* that belong together
BaseConfig ==
    [step_limit |-> 1, cost_limit |-> 0, num_candidates |-> 1, use_n |-> FALSE,
     verifier_enabled |-> FALSE, verifier_type |-> "first_valid",
     add_format_error_to_conversation |-> TRUE, output_path |-> FALSE]

\* every pair of limits, for every number of sequentially sampled candidates
LimitConfigs ==
    { [BaseConfig EXCEPT !.step_limit = s, !.cost_limit = c, !.num_candidates = n] :
        s \in 0..MaxSteps, c \in 0..MaxCostLimit, n \in 0..MaxCandidates }

\* batched and sequential sampling, with and without a cost limit
SamplingConfigs ==
    { [BaseConfig EXCEPT !.cost_limit = c, !.num_candidates = n, !.use_n = u] :
        c \in 0..MaxCostLimit, n \in 0..MaxCandidates, u \in BOOLEAN }

\* a verifier over every way of sampling, and every verifier type over
\* the largest number of sequentially sampled candidates
VerifierConfigs ==
    { [BaseConfig EXCEPT !.num_candidates = n, !.use_n = u,
                         !.verifier_enabled = TRUE] :
        n \in 1..MaxCandidates, u \in BOOLEAN }
    \cup { [BaseConfig EXCEPT !.num_candidates = MaxCandidates,
                              !.verifier_enabled = TRUE, !.verifier_type = t] :
             t \in VerifierTypes }

\* what run() does with format errors and with the trajectory file
HandlingConfigs ==
    { [BaseConfig EXCEPT !.step_limit = s, !.add_format_error_to_conversation = a,
                         !.output_path = o] :
        s \in {0, MaxSteps}, a \in BOOLEAN, o \in BOOLEAN }

Configs == LimitConfigs \cup SamplingConfigs \cup VerifierConfigs \cup HandlingConfigs

\* DefaultAgent.__init__
InitWith(cfgs, unb) ==
    /\ config \in cfgs
    /\ messages = <<>>
    /\ cost = 0
    /\ n_calls = 0
    /\ step_count = 0
    /\ pc = "init"
    /\ responses = <<>>
    /\ committed = BlankMessage
    /\ outputs = <<>>
    /\ exc = NoException
    /\ saved = NeverSaved
    /\ result = NoResult
    /\ hist = NewHist
    /\ unbounded = unb

\* run(), lines 140-148: reset the counters and add the two opening messages
RunStart ==
    /\ pc = "init"
    /\ messages' = AddMessages(<<>>, << [BlankMessage EXCEPT !.role = "system"],
                                        [BlankMessage EXCEPT !.role = "user"] >>)
    /\ step_count' = 0
    /\ cost' = 0
    /\ n_calls' = 0
    /\ pc' = "loop"
    /\ hist' = NewHist
    /\ UNCHANGED <<config, responses, committed, outputs, exc, saved, result, unbounded, verifierVars, extVars>>

\* step() -> query(), line 174: _check_limits before anything else
QueryCheckLimits ==
    /\ pc = "loop"
    /\ IF LimitsBreached(config, step_count, cost)
       THEN /\ exc' = Raise("LimitsExceeded", "LimitsExceeded", <<LimitsExceededMessage>>)
            /\ pc' = "handle"
            /\ hist' = [hist EXCEPT !.last = "limits"]
            /\ UNCHANGED responses
       ELSE /\ \/ unbounded
               \/ /\ step_count < MaxSteps
                  /\ n_calls + NumCandidates(config) <= MaxCalls
            /\ pc' = IF NumCandidates(config) > 1 /\ config.use_n THEN "batch" ELSE "sample"
            /\ responses' = <<>>
            /\ hist' = [hist EXCEPT !.step_calls = n_calls, !.batch = "none",
                                    !.last = "begin", !.verifier_called = FALSE,
                                    !.step_len = Len(messages)]
            /\ UNCHANGED exc
    /\ UNCHANGED <<config, messages, cost, n_calls, step_count, committed, outputs,
                   saved, result, unbounded, verifierVars, extVars>>

\* (faulty variant) the call is counted only once the model has answered
CallsAfterRaisingQueryUncounted(n) == n

\* _query_once, lines 284-285: n_calls is incremented before model.query,
\* so a query that raises has been counted
CallsAfterRaisingQuery(n) == IncCalls(n)

\* _query_once raising: its own _check_limits, or model.query raising
\* FormatError or an exception that is not an InterruptAgentFlow
QueryOnceRaises(at) ==
    /\ pc = at
    /\ \/ /\ LimitsBreached(config, step_count, cost)
          /\ exc' = Raise("LimitsExceeded", "LimitsExceeded", <<LimitsExceededMessage>>)
          /\ hist' = [hist EXCEPT !.last = "limits_mid",
                                  !.batch = IF at = "batch" THEN "interrupted" ELSE @]
          /\ UNCHANGED n_calls
       \/ /\ ~LimitsBreached(config, step_count, cost)
          /\ n_calls' = CallsAfterRaisingQuery(n_calls)
          /\ \/ /\ unbounded \/ hist.format_errors < MaxFormatErrors
                /\ exc' = Raise("FormatError", "FormatError", <<FormatErrorMessage>>)
                /\ hist' = [hist EXCEPT !.last = "raise",
                                        !.format_errors = Min(@ + 1, MaxFormatErrors),
                                        !.batch = IF at = "batch" THEN "interrupted"
                                                  ELSE @]
             \/ /\ at = "sample"
                /\ \E t \in ExceptionTypes : exc' = Raise("Exception", t, <<>>)
                /\ hist' = [hist EXCEPT !.last = "raise"]
    /\ pc' = IF at = "batch" /\ SwallowedByFallback(exc'.kind) THEN "sample" ELSE "handle"
    /\ UNCHANGED <<config, messages, cost, step_count, responses, committed, outputs,
                   saved, result, unbounded, verifierVars, extVars>>

\* _sample_candidates, lines 260-261 and 276-277: one independent _query_once
QueryOnce ==
    /\ pc = "sample"
    /\ NeedsMoreCandidates(responses, NumCandidates(config))
    /\ ~LimitsBreached(config, step_count, cost)
    /\ n_calls' = IncCalls(n_calls)
    /\ \E r \in ResponseKinds :
          /\ cost' = cost + r.cost
          /\ responses' = Append(responses, SingleResponse(n_calls', r.cost, r.n))
    /\ pc' = IF NeedsMoreCandidates(responses', NumCandidates(config))
             THEN "sample" ELSE "select"
    /\ hist' = [hist EXCEPT !.last = "query"]
    /\ UNCHANGED <<config, messages, step_count, committed, outputs, exc, saved,
                   result, unbounded, verifierVars, extVars>>

\* _sample_candidates, lines 263-274: the batched query and its split
BatchedQuery ==
    /\ pc = "batch"
    /\ ~LimitsBreached(config, step_count, cost)
    /\ n_calls' = IncCalls(n_calls)
    /\ \/ \* model.query raises a generic exception: logged, responses = []
          /\ responses' = <<>>
          /\ hist' = [hist EXCEPT !.batch = "raised", !.last = "batch"]
          /\ UNCHANGED cost
       \/ \E r \in BatchedKinds, shape \in RawShapes :
             \E choices \in IF shape = "choices" THEN ChoiceLists(NumCandidates(config))
                             ELSE {<<>>} :
                /\ cost' = cost + r.cost
                /\ responses' = BatchResponses(
                       BatchedResponse(n_calls', r.cost, r.n, shape, choices),
                       NumCandidates(config))
                /\ hist' = [hist EXCEPT !.batch = "returned", !.last = "batch"]
    /\ pc' = IF NeedsMoreCandidates(responses', NumCandidates(config))
             THEN "sample" ELSE "select"
    /\ UNCHANGED <<config, messages, step_count, committed, outputs, exc, saved,
                   result, unbounded, verifierVars, extVars>>

\* (faulty variant) every sampled response is added to the conversation
CommittedMessagesAll(resps, message) == Append(resps, message)

\* query(), line 222: self.add_messages(message)
CommittedMessages(resps, message) == <<message>>

\* (faulty variant) select is called whether or not a verifier was built
UsesVerifierAlways(cfg) == TRUE

\* query(), line 196: `if self.verifier`, which _build_verifier (lines
\* 240-242) leaves None when the verifier is not enabled
UsesVerifier(cfg) == cfg.verifier_enabled

\* what a verifier's select may hand back to query(): the agent does not
\* trust it to be a valid index
SelectReturns == -1..(MaxCandidates + 1)

\* query(), lines 176-223: select among the sampled responses and commit
SelectAndCommit ==
    /\ pc = "select"
    /\ \E raw \in SelectReturns :
          LET infos == CandidateInfos(responses)
              selected_index == IF UsesVerifier(config)
                                THEN ClampIndex(raw, Len(responses)) ELSE 0
              metadata == IF UsesVerifier(config)
                          THEN [enabled |-> TRUE, type |-> config.verifier_type,
                                selected_index |-> selected_index, candidates |-> infos]
                          ELSE [enabled |-> FALSE, type |-> "none",
                                selected_index |-> 0, candidates |-> infos]
          IN  /\ ~UsesVerifier(config) => raw = 0
              /\ hist' = [hist EXCEPT !.select_returned = raw, !.last = "commit",
                                      !.verifier_called = UsesVerifier(config),
                                      !.executed = <<>>]
              /\ IF PyInRange(responses, selected_index)
                 THEN LET message == AttachVerifierMetadata(
                                         PyIndex(responses, selected_index), metadata)
                      IN  /\ messages' = AddMessages(messages,
                                                    CommittedMessages(responses, message))
                          /\ committed' = message
                          /\ outputs' = <<>>
                          /\ pc' = "execute"
                          /\ UNCHANGED exc
                 ELSE \* responses[selected_index] raises IndexError
                      /\ exc' = Raise("Exception", "IndexError", <<>>)
                      /\ pc' = "handle"
                      /\ UNCHANGED <<messages, committed, outputs>>
    /\ UNCHANGED <<config, cost, n_calls, step_count, responses, saved, result,
                   unbounded, verifierVars, extVars>>

\* query(), lines 198-209: the verifier's select raises (a verifier-model
\* query failed); nothing is committed
VerifierRaises ==
    /\ pc = "select"
    /\ UsesVerifier(config)
    /\ config.verifier_type # "first_valid"
    /\ \E t \in ExceptionTypes : exc' = Raise("Exception", t, <<>>)
    /\ pc' = "handle"
    /\ hist' = [hist EXCEPT !.last = "raise", !.verifier_called = TRUE]
    /\ UNCHANGED <<config, messages, cost, n_calls, step_count, responses, committed,
                   outputs, saved, result, unbounded, verifierVars, extVars>>

\* (faulty variant) the actions are executed from the last to the first
NextActionReversed(message, done) == message.actions[Len(message.actions) - done]

\* execute_actions, line 227: the action the list comprehension passes to
\* env.execute after `done` actions were executed
NextAction(message, done) == message.actions[done + 1]

\* execute_actions, line 227: env.execute on the next action returns
ExecuteAction ==
    /\ pc = "execute"
    /\ Len(outputs) < Len(committed.actions)
    /\ \E o \in EnvOutputs :
          /\ ~IsFinished(o)
          /\ outputs' = Append(outputs, o)
          /\ hist' = [hist EXCEPT
                        !.last = "execute",
                        !.executed = Append(@, [action |-> NextAction(committed,
                                                                      Len(outputs)),
                                                output |-> o])]
    /\ UNCHANGED <<config, messages, cost, n_calls, step_count, pc, responses,
                   committed, exc, saved, result, unbounded, verifierVars, extVars>>

\* execute_actions, line 227: env.execute raises Submitted (_check_finished)
\* or an exception that is not an InterruptAgentFlow
ExecuteRaises ==
    /\ pc = "execute"
    /\ Len(outputs) < Len(committed.actions)
    /\ \/ \E o \in EnvOutputs :
             /\ IsFinished(o)
             /\ exc' = Raise("Submitted", "Submitted", <<SubmittedMessage(o)>>)
             /\ hist' = [hist EXCEPT
                           !.submit_output = o, !.last = "raise",
                           !.executed = Append(@, [action |-> NextAction(committed,
                                                                         Len(outputs)),
                                                   output |-> o])]
       \/ /\ \E t \in ExceptionTypes : exc' = Raise("Exception", t, <<>>)
          /\ hist' = [hist EXCEPT
                        !.last = "raise",
                        !.executed = Append(@, [action |-> NextAction(committed,
                                                                      Len(outputs)),
                                                output |-> NoOutput])]
    /\ pc' = "handle"
    /\ UNCHANGED <<config, messages, cost, n_calls, step_count, responses, committed,
                   outputs, saved, result, unbounded, verifierVars, extVars>>

\* execute_actions, line 228, and step(), lines 169-170: append the
\* observations, count the step, return
StepReturn ==
    /\ pc = "execute"
    /\ Len(outputs) = Len(committed.actions)
    /\ messages' = AddMessages(messages, FormatObservationMessages(committed, outputs))
    /\ step_count' = CountStep(step_count, committed)
    /\ exc' = NoException
    /\ pc' = "handle"
    /\ hist' = [hist EXCEPT !.steps_returned = @ + 1, !.last = "return"]
    /\ UNCHANGED <<config, cost, n_calls, responses, committed, outputs, saved, result,
                   unbounded, verifierVars, extVars>>

\* run(), lines 159-164, after the try block: save, then leave the loop when
\* the last message is an exit message
AfterStep(msgs) ==
    /\ messages' = msgs
    /\ saved' = Save(msgs, n_calls, cost, step_count)
    /\ IF LastIsExit(msgs)
       THEN /\ pc' = "returned"
            /\ result' = Extra(msgs[Len(msgs)])
       ELSE /\ pc' = "loop"
            /\ UNCHANGED result

\* run(): step() returned
RunStepReturned ==
    /\ pc = "handle"
    /\ exc.kind = "none"
    /\ AfterStep(messages)
    /\ hist' = [hist EXCEPT !.last = "handled"]
    /\ UNCHANGED <<config, cost, n_calls, step_count, responses, committed, outputs,
                   exc, unbounded, verifierVars, extVars>>

\* run(), lines 152-155: except InterruptAgentFlow
RunCatchInterrupt ==
    /\ pc = "handle"
    /\ exc.kind \in InterruptKinds
    /\ IF SkipsInterrupt(exc, config)
       THEN \* continue: only the finally block runs
            /\ saved' = Save(messages, n_calls, cost, step_count)
            /\ pc' = "loop"
            /\ UNCHANGED <<messages, result>>
       ELSE AfterStep(AddMessages(messages, exc.messages))
    /\ exc' = NoException
    /\ hist' = [hist EXCEPT !.last = "caught"]
    /\ UNCHANGED <<config, cost, n_calls, step_count, responses, committed, outputs,
                   unbounded, verifierVars, extVars>>

\* (faulty variant) every unexpected exception is recorded under one status
UncaughtExitMessageGeneric(e) ==
    [BlankMessage EXCEPT !.role = "exit", !.exit_status = "Exception",
                         !.submission = <<>>]

\* handle_uncaught_exception: the exit message recording the exception
UncaughtExitMessage(e) ==
    [BlankMessage EXCEPT !.role = "exit", !.exit_status = e.type, !.submission = <<>>]

\* run(), lines 156-161: except Exception, save in finally, re-raise
RunCatchException ==
    /\ pc = "handle"
    /\ exc.kind = "Exception"
    /\ messages' = AddMessages(messages, <<UncaughtExitMessage(exc)>>)
    /\ saved' = Save(messages', n_calls, cost, step_count)
    /\ pc' = "raised"
    /\ hist' = [hist EXCEPT !.last = "reraised"]
    /\ UNCHANGED <<config, cost, n_calls, step_count, responses, committed, outputs,
                   exc, result, unbounded, verifierVars, extVars>>

Next ==
    \/ RunStart
    \/ QueryCheckLimits
    \/ QueryOnce
    \/ QueryOnceRaises("sample")
    \/ QueryOnceRaises("batch")
    \/ BatchedQuery
    \/ SelectAndCommit
    \/ VerifierRaises
    \/ ExecuteAction
    \/ ExecuteRaises
    \/ StepReturn
    \/ RunStepReturned
    \/ RunCatchInterrupt
    \/ RunCatchException

Init == InitWith(Configs, FALSE) /\ VerifierIdle /\ ExtIdle

Spec == Init /\ [][Next]_vars

\* The liveness specification: the same agent with both limits set, runs of
\* any length (n_calls saturates, the conversation is a window), and the
\* agent, a sequential program whose collaborators always answer, always
\* taking its next step.
LiveConfigs ==
    { [c EXCEPT !.step_limit = Max(1, c.step_limit),
                !.cost_limit = Max(1, c.cost_limit)] : c \in Configs }

InitLive == InitWith(LiveConfigs, TRUE) /\ VerifierIdle /\ ExtIdle

LiveSpec == InitLive /\ [][Next]_vars /\ WF_vars(Next)

\* The selection specification: one call of a verifier's selection function
\* on every list of up to MaxVerified candidates, while no agent runs.
SelectInit ==
    /\ InitWith({BaseConfig}, FALSE)
    /\ vpc = "ready"
    /\ \E n \in 1..MaxVerified : vin \in SelectInputs(n)
    /\ vout = NoSelection
    /\ tasks = <<>>
    /\ stats = NoStats
    /\ locals = NoLocals
    /\ ExtIdle

SelectNext ==
    \/ FirstValidSelect
    \/ LLMQuery
    \/ LLMParse
    \/ RewardSelectBest

SelectSpec == SelectInit /\ [][SelectNext]_vars

\* The scoring specification: one call of RewardModelVerifier.select from
\* query(), with its worker pool, on the lists of ScoredSizes candidates.
RewardConfig ==
    [BaseConfig EXCEPT !.num_candidates = 2, !.verifier_enabled = TRUE,
                       !.verifier_type = "reward_model"]

RewardInit ==
    /\ \E n \in ScoredSizes, f \in Fallbacks :
          /\ vin = [kind |-> "reward_model", candidates |-> ScoredCandidates(n),
                    fallback |-> f, selection_index_base |-> 1, rewards |-> <<>>]
          /\ responses = ScoredResponses(n)
    /\ config = RewardConfig
    /\ messages = << [BlankMessage EXCEPT !.role = "system"],
                     [BlankMessage EXCEPT !.role = "user"] >>
    /\ cost = SumCosts(responses)
    /\ n_calls = Len(responses)
    /\ step_count = 0
    /\ pc = "select"
    /\ committed = BlankMessage
    /\ outputs = <<>>
    /\ exc = NoException
    /\ saved = NeverSaved
    /\ result = NoResult
    /\ hist = NewHist
    /\ unbounded = FALSE
    /\ vpc = "ready"
    /\ vout = NoSelection
    /\ tasks = <<>>
    /\ stats = NoStats
    /\ locals = NoLocals
    /\ ExtIdle

RewardNext ==
    \/ RewardStart
    \/ RewardSubmit
    \/ RewardAwait
    \/ TaskStart
    \/ \E i \in 1..Len(tasks) : TaskAttemptSucceeds(i)
    \/ \E i \in 1..Len(tasks) : TaskAttemptRaises(i)
    \/ \E i \in 1..Len(tasks) : RewardCollect(i)
    \/ \E i \in 1..Len(tasks) : RewardCollectRaises(i)
    \/ RewardRaise
    \/ RewardReturn
    \/ QueryAfterRewardSelect

RewardSpec == RewardInit /\ [][RewardNext]_vars

\* The batch specification: main of the swebench runner on up to
\* MaxInstances instances, with its pool of worker threads and the operator.
BatchInit ==
    /\ InitWith({BaseConfig}, FALSE)
    /\ VerifierIdle
    /\ batch \in BatchInputs
    /\ parser = NoParser
    /\ session = NoSession

BatchNext ==
    \/ BatchSubmit
    \/ WorkerStart
    \/ \E i \in 1..Len(batch.inst) : InstancePrepare(i)
    \/ \E i \in 1..Len(batch.inst) : InstanceEnvironment(i)
    \/ \E i \in 1..Len(batch.inst) : InstanceRun(i)
    \/ \E i \in 1..Len(batch.inst) : InstanceSave(i)
    \/ \E i \in 1..Len(batch.inst) : InstanceRecord(i)
    \/ \E i \in 1..Len(batch.inst) : BatchCollect(i)
    \/ BatchFinish
    \/ BatchInterrupt
    \/ BatchCancel
    \/ BatchUnwind

BatchSpec == BatchInit /\ [][BatchNext]_vars

\* ------------------------------------------------ tool-call action parsing
\* "tool_call_id" of an entry or of an action that has no such key
AbsentId == "(absent)"

\* the value of parse_error when no entry was in error
None == "(None)"

\* values json.loads returns, and what a mapping given directly looks like
CommandMapping(cmd) == [type |-> "dict", has_command |-> TRUE, command |-> cmd]
EmptyMapping == [type |-> "dict", has_command |-> FALSE, command |-> ""]
CommandList == [type |-> "list", has_command |-> FALSE, command |-> ""]
JSONDecodeError == [type |-> "error", has_command |-> FALSE, command |-> ""]

\* json.loads on the argument texts of the model's tool calls
JsonLoads(text) ==
    CASE text = "{\"command\": \"ls\"}"  -> CommandMapping("ls")
      [] text = "{\"command\": \"pwd\"}" -> CommandMapping("pwd")
      [] text = "{}"                     -> EmptyMapping
      [] text = "[\"command\"]"          -> CommandList
      [] OTHER                           -> JSONDecodeError

\* "arguments" of a tool call: a JSON text or a mapping given directly
RawArguments ==
    [is_str : {TRUE},
     text : {"{\"command\": \"ls\"}", "{\"command\": \"pwd\"}", "{}",
             "[\"command\"]", "{\"command\": "},
     value : {EmptyMapping}]
    \cup [is_str : {FALSE}, text : {""}, value : {CommandMapping("ls")}]

\* "function" of a tool call: a mapping with a name, or (malformed) a string
FunctionData ==
    { [is_mapping |-> TRUE, name |-> "bash"],
      [is_mapping |-> TRUE, name |-> "python"],
      [is_mapping |-> FALSE, name |-> ""] }

\* an entry of tool_calls that is not a dict
MalformedObject ==
    [is_dict |-> FALSE, function |-> [is_mapping |-> FALSE, name |-> ""],
     arguments |-> [is_str |-> FALSE, text |-> "", value |-> EmptyMapping],
     id |-> AbsentId]

\* the entries of a tool_calls list
ToolCalls ==
    [is_dict : {TRUE}, function : FunctionData, arguments : RawArguments,
     id : {AbsentId, "", "call_1"}]
    \cup {MalformedObject}

\* lines 356-357: the arguments after json.loads, where they are a text
ParsedArguments(raw) == IF raw.is_str THEN JsonLoads(raw.text) ELSE raw.value

\* lines 369-372: the action of a well-formed entry
ToolCallAction(tool_call, arguments) ==
    [command |-> arguments.command,
     tool_call_id |-> IF tool_call.id \notin {AbsentId, ""}
                      THEN tool_call.id ELSE AbsentId]

\* "; ".join(errors)
RECURSIVE JoinErrors(_)
JoinErrors(errors) ==
    IF Len(errors) = 1 THEN errors[1]
    ELSE errors[1] \o "; " \o JoinErrors(Tail(errors))

\* the calls of _parse_tool_call_actions
ToolCallInputs(n) ==
    \E tc \in [1..n -> ToolCalls] :
       parser = [phase |-> "tool_calls", tool_calls |-> tc, pos |-> 0,
                 actions |-> <<>>, errors |-> <<>>, parse_error |-> None]

\* one iteration of the loop of lines 349-373
ParseToolCall ==
    /\ parser.phase = "tool_calls"
    /\ parser.pos < Len(parser.tool_calls)
    /\ LET tool_call == parser.tool_calls[parser.pos + 1]
           arguments == ParsedArguments(tool_call.arguments)
           next      == [parser EXCEPT !.pos = @ + 1]
           Error(e)  == [next EXCEPT !.errors = Append(@, e)]
       IN  parser' =
             IF ~tool_call.is_dict
               THEN Error("Malformed tool call object.")
             ELSE IF ~tool_call.function.is_mapping
               \* line 354: a str has no get(), AttributeError leaves the loop
               THEN [parser EXCEPT !.phase = "raised"]
             ELSE IF arguments.type = "error"
               THEN Error("Error parsing tool call arguments")
             ELSE IF tool_call.function.name # "bash"
               THEN Error("Unknown tool")
             ELSE IF arguments.type # "dict" \/ ~arguments.has_command
               THEN Error("Missing 'command' argument in bash tool call.")
             ELSE [next EXCEPT
                     !.actions = Append(@, ToolCallAction(tool_call, arguments))]
    /\ UNCHANGED <<agentVars, verifierVars, batch, session>>

\* lines 375-376
ParseToolCallsReturn ==
    /\ parser.phase = "tool_calls"
    /\ parser.pos = Len(parser.tool_calls)
    /\ parser' = [parser EXCEPT
                    !.phase = "returned",
                    !.parse_error = IF parser.errors = <<>> THEN None
                                    ELSE JoinErrors(parser.errors)]
    /\ UNCHANGED <<agentVars, verifierVars, batch, session>>

\* ------------------------------------------------ free-text action parsing
\* a text is a sequence of tokens; these are the whitespace ones
Whitespace == {" ", "\n"}

\* str.strip(), its left end
RECURSIVE StripLeft(_)
StripLeft(text) ==
    IF text # <<>> /\ Head(text) \in Whitespace THEN StripLeft(Tail(text))
    ELSE text

\* str.strip(), its right end
RECURSIVE StripRight(_)
StripRight(text) ==
    IF text # <<>> /\ text[Len(text)] \in Whitespace
    THEN StripRight(SubSeq(text, 1, Len(text) - 1))
    ELSE text

\* str.strip()
Strip(text) == StripRight(StripLeft(text))

\* what the group of the action pattern captures in one action block
Groups == { <<"ls">>, <<" ", "pwd", "\n">>, <<"\n">> }

\* a content is a sequence of stretches: prose the action pattern does not
\* match, or an action block it matches, capturing `group`
Prose == [is_match |-> FALSE, group |-> <<>>]
Stretches == {Prose} \cup [is_match : {TRUE}, group : Groups]

\* "content" of a message when it is not a str
NoContent == [is_str |-> FALSE, stretches |-> <<>>]

Contents(n) ==
    UNION { [is_str : {TRUE}, stretches : [1..k -> Stretches]] : k \in 0..n }

\* re.findall(action_regex, content, re.DOTALL): the captured groups of the
\* non-overlapping matches, from left to right
RECURSIVE Findall(_)
Findall(stretches) ==
    IF stretches = <<>> THEN <<>>
    ELSE (IF Head(stretches).is_match THEN <<Head(stretches).group>> ELSE <<>>)
         \o Findall(Tail(stretches))

\* result of a parser that found no action and reports no error
NoParseResult == [actions |-> <<>>, error |-> None, found |-> 0]

\* ValueError(f"Expected exactly one action, found {len(actions)}")
ValueError(actions) ==
    [actions |-> <<>>, error |-> "ValueError", found |-> Len(actions)]

\* lines 71 (rejected_actions.py) and 41 (trajectory_replay.py)
ExactlyOne(actions) == Len(actions) = 1

\* rejected_actions.extract_action_from_response(content, action_regex)
ExtractInputs(n) ==
    \E c \in Contents(n) :
       parser = [phase |-> "extract", content |-> c, result |-> NoParseResult]

ExtractActionFromResponse ==
    /\ parser.phase = "extract"
    /\ LET actions == Findall(parser.content.stretches)
       IN  parser' =
             IF ~ExactlyOne(actions)
             THEN [parser EXCEPT !.phase = "raised",
                                 !.result = ValueError(actions)]
             ELSE [parser EXCEPT
                     !.phase = "returned",
                     !.result = [actions |-> <<Strip(actions[1])>>,
                                 error |-> None, found |-> 1]]
    /\ UNCHANGED <<agentVars, verifierVars, batch, session>>

\* trajectory_replay._coerce_content, for a str or None
CoerceContent(content) == IF content.is_str THEN content.stretches ELSE <<>>

\* the roles of the messages of one step of a trajectory
StepRoles ==
    { <<>>, <<"assistant">>, <<"assistant", "user">>, <<"user", "assistant">>,
      <<"assistant", "assistant">> }

\* RegexActionSelector.select_action(step_messages, step_index)
SelectActionInputs(n) ==
    \E roles \in StepRoles :
       \E cs \in [1..Len(roles) -> Contents(n) \cup {NoContent}] :
          parser = [phase |-> "select_action",
                    step_messages |-> [i \in 1..Len(roles) |->
                                         [role |-> roles[i],
                                          content |-> cs[i]]],
                    pos |-> 0, actions |-> <<>>, result |-> NoParseResult]

\* lines 36-40: one iteration of the loop over the messages of the step
SelectActionScan ==
    /\ parser.phase = "select_action"
    /\ parser.pos < Len(parser.step_messages)
    /\ LET message == parser.step_messages[parser.pos + 1]
       IN  parser' =
             [parser EXCEPT
                !.pos = @ + 1,
                !.actions = IF message.role # "assistant" THEN @
                            ELSE @ \o Findall(CoerceContent(message.content))]
    /\ UNCHANGED <<agentVars, verifierVars, batch, session>>

\* lines 41-43
SelectActionReturn ==
    /\ parser.phase = "select_action"
    /\ parser.pos = Len(parser.step_messages)
    /\ parser' =
         IF ~ExactlyOne(parser.actions)
         THEN [parser EXCEPT !.phase = "raised",
                             !.result = ValueError(parser.actions)]
         ELSE [parser EXCEPT
                 !.phase = "returned",
                 !.result = [actions |-> <<Strip(parser.actions[1])>>,
                             error |-> None, found |-> 1]]
    /\ UNCHANGED <<agentVars, verifierVars, batch, session>>

\* --------------------------------------- DefaultAgent._parse_actions_from_choice
\* parse_regex_actions(content, action_regex, format_error_template): one
\* action, the stripped match, when the pattern matches exactly once;
\* otherwise FormatError, whose message is told how many matches were found
ParseRegexActions(content) ==
    LET actions == Findall(content.stretches)
    IN  IF ExactlyOne(actions)
        THEN [actions |-> <<[command |-> Strip(actions[1]),
                             tool_call_id |-> AbsentId]>>,
              error |-> None, found |-> 1]
        ELSE [actions |-> <<>>, error |-> "FormatError",
              found |-> Len(actions)]

\* the choice messages of a response and the model's action_regex
ChoiceInputs(n, m) ==
    \/ \E r \in BOOLEAN :
          parser = [phase |-> "choice", is_dict |-> FALSE, tool_calls |-> <<>>,
                    content |-> NoContent, action_regex |-> r,
                    result |-> NoParseResult]
    \/ \E k \in 1..n : \E tc \in [1..k -> ToolCalls] :
          parser = [phase |-> "choice", is_dict |-> TRUE, tool_calls |-> tc,
                    content |-> NoContent, action_regex |-> FALSE,
                    result |-> NoParseResult]
    \/ \E c \in Contents(m) \cup {NoContent}, r \in BOOLEAN :
          parser = [phase |-> "choice", is_dict |-> TRUE, tool_calls |-> <<>>,
                    content |-> c, action_regex |-> r,
                    result |-> NoParseResult]

\* lines 324-344
ParseActionsFromChoice ==
    /\ parser.phase = "choice"
    /\ parser' =
         IF ~parser.is_dict
           THEN [parser EXCEPT
                   !.phase = "returned",
                   !.result = [actions |-> <<>>,
                               error |-> "Malformed choice message.",
                               found |-> 0]]
         ELSE IF parser.tool_calls # <<>>
           THEN [phase |-> "tool_calls", tool_calls |-> parser.tool_calls,
                 pos |-> 0, actions |-> <<>>, errors |-> <<>>,
                 parse_error |-> None]
         ELSE IF parser.content.is_str /\ parser.action_regex
           THEN [parser EXCEPT !.phase = "returned",
                               !.result = ParseRegexActions(parser.content)]
         ELSE [parser EXCEPT !.phase = "returned",
                             !.result = NoParseResult]
    /\ UNCHANGED <<agentVars, verifierVars, batch, session>>

ParseInit ==
    /\ InitWith({BaseConfig}, FALSE)
    /\ VerifierIdle
    /\ batch = NoBatch
    /\ session = NoSession
    /\ \/ \E n \in 0..MaxToolCalls : ToolCallInputs(n)
       \/ ExtractInputs(MaxStretches)
       \/ SelectActionInputs(MaxStretches)
       \/ ChoiceInputs(MaxToolCalls, MaxStretches)

ParseNext ==
    \/ ParseToolCall
    \/ ParseToolCallsReturn
    \/ ExtractActionFromResponse
    \/ SelectActionScan
    \/ SelectActionReturn
    \/ ParseActionsFromChoice

ParseSpec == ParseInit /\ [][ParseNext]_vars

\* ------------------------------------------------------- InteractiveAgent
\* what the user types at a prompt, as a sequence of tokens
UserInputs ==
    { <<>>, <<" ">>, <<"/y">>, <<"/u">>, <<"/c">>, <<"/h">>, <<"/m">>,
      <<" ", "no", " ">> }

\* what the user types at the multiline prompt
MultilineInputs == { <<>>, <<"/y">>, <<" ", "no", " ">> }

\* _MODE_COMMANDS_MAPPING
ModeCommandsMapping(user_input) ==
    CASE user_input = <<"/u">> -> "human"
      [] user_input = <<"/c">> -> "confirm"
      [] user_input = <<"/y">> -> "yolo"
      [] OTHER -> "none"

\* the commands of the language model
Commands == { <<"ls">>, <<"rm">>, <<"ls", "-l">> }

\* the values of whitelist_actions: no pattern, or the pattern "ls"
Whitelists == { {}, {<<"ls">>} }

\* re.match(r, action): the pattern matches at the start of the action
RECURSIVE ReMatch(_, _)
ReMatch(r, action) ==
    \/ r = <<>>
    \/ /\ action # <<>>
       /\ Head(r) = Head(action)
       /\ ReMatch(Tail(r), Tail(action))

\* _should_ask_confirmation
ShouldAskConfirmation(mode, whitelist_actions, action) ==
    /\ mode = "confirm"
    /\ ~\E r \in whitelist_actions : ReMatch(r, action)

\* line 230
CommandsNeedingConfirmation(mode, whitelist_actions, commands) ==
    SelectSeq(commands,
              LAMBDA c : ShouldAskConfirmation(mode, whitelist_actions, c))

\* the messages the interactive agent appends
SessionMessage(role, kind, text) == [role |-> role, kind |-> kind, text |-> text]

\* lines 251-257: the message carried by the rejection's UserInterruption
RejectionMessage(user_input) ==
    SessionMessage("user", "UserRejection", user_input)

NoInterruption == [type |-> "none", message |-> SessionMessage("", "", <<>>)]
RaiseIn(type, message) == [type |-> type, message |-> message]

\* what the session remembers of the rejection it has just handled
NoRejection == [comment |-> <<>>, executed |-> 0]

\* an interactive run about to make its first query; `added` holds the
\* messages add_messages has appended to the conversation since the last
\* query began (add_messages only appends)
NewSession(mode, whitelist_actions, confirm_exit, step_limit, cost_limit) ==
    [phase |-> "query", mode |-> mode, whitelist_actions |-> whitelist_actions,
     confirm_exit |-> confirm_exit, step_limit |-> step_limit,
     cost_limit |-> cost_limit, step_count |-> 0, n_calls |-> 0, cost |-> 0,
     entered |-> <<>>,
     queries |-> 0, actions |-> <<>>,
     asked_mode |-> "none", confirmed |-> FALSE, outputs |-> <<>>,
     passed |-> 0, exc |-> NoInterruption, prompt_for |-> "none",
     multiline |-> FALSE, user_input |-> <<>>, added |-> <<>>,
     last |-> "none",
     rejection |-> NoRejection]

\* the lists of actions of a message of the language model
ActionLists(n) == UNION { [1..k -> Commands] : k \in 0..n }

\* the session prompts the user
PromptFor(s, what, multiline) ==
    [s EXCEPT !.phase = "prompt", !.prompt_for = what, !.multiline = multiline]

\* the message of the model (or of the user) is in the conversation and
\* execute_actions begins
BeginExecute(s, message, actions) ==
    [s EXCEPT !.phase = "ask", !.actions = actions,
              !.added = <<message>>,
              !.outputs = <<>>, !.passed = 0, !.confirmed = FALSE,
              !.asked_mode = "none", !.exc = NoInterruption,
              !.prompt_for = "none", !.multiline = FALSE, !.user_input = <<>>]

\* step() has returned or raised: its locals are gone
EndStep(s, phase) ==
    [s EXCEPT !.phase = phase, !.actions = <<>>, !.outputs = <<>>,
              !.passed = 0, !.confirmed = FALSE, !.asked_mode = "none",
              !.exc = NoInterruption, !.prompt_for = "none",
              !.multiline = FALSE, !.user_input = <<>>]

\* InteractiveAgent.query, lines 143-144: human mode prompts the user
HumanQuery ==
    /\ session.phase = "query"
    /\ session.mode = "human"
    /\ session.queries < MaxQueries
    /\ session' = [PromptFor(session, "human", FALSE) EXCEPT
                     !.last = "query", !.rejection = NoRejection,
                     !.entered = <<>>,
                     !.added = <<>>]
    /\ UNCHANGED <<agentVars, verifierVars, batch, parser>>

\* what one query of the model costs in an interactive run
SessionQueryCost == 1

\* DefaultAgent.query with one candidate and no verifier: the message of the
\* model with its actions is in the conversation, n_calls and cost are raised
QueryReturns(s) ==
    { BeginExecute([s EXCEPT !.queries = @ + 1, !.n_calls = @ + 1,
                             !.cost = @ + SessionQueryCost],
                   SessionMessage("assistant", "assistant", <<>>), actions) :
      actions \in ActionLists(MaxActions) }

\* DefaultAgent.query as InteractiveAgent.query calls it at line 157:
\* _check_limits raises LimitsExceeded, caught at line 158, or the model is
\* queried
SuperQuery(s) ==
    IF LimitsBreached(s, s.step_count, s.cost)
    THEN { [s EXCEPT !.phase = "limits"] }
    ELSE QueryReturns(s)

\* InteractiveAgent.query, lines 155-157
ModelQuery ==
    /\ session.phase = "query"
    /\ session.mode # "human"
    /\ \/ session.queries < MaxQueries
       \/ LimitsBreached(session, session.step_count, session.cost)
    /\ session' \in SuperQuery([session EXCEPT !.last = "query",
                                               !.rejection = NoRejection,
                                               !.entered = <<>>])
    /\ UNCHANGED <<agentVars, verifierVars, batch, parser>>

\* the exit message LimitsExceeded carries
SessionLimitsExceeded == SessionMessage("exit", "LimitsExceeded", <<>>)

\* (faulty variant) only the step limit is taken over
RenewStepLimitOnly(s, step_limit, cost_limit) ==
    [s EXCEPT !.step_limit = step_limit]

\* lines 163-164: the configuration takes the limits the user entered
RenewLimits(s, step_limit, cost_limit) ==
    [s EXCEPT !.step_limit = step_limit, !.cost_limit = cost_limit]

\* ValueError of int() or float(), as handle_uncaught_exception records it
SessionValueError ==
    RaiseIn("ValueError", SessionMessage("exit", "ValueError", <<>>))

\* the limits a user enters: none (0) or the largest one
NewLimitChoices == {0, MaxNewLimit}

\* InteractiveAgent.query, lines 158-165: the user enters new limits and
\* super().query() is called again, outside the try: limits that are still
\* breached raise LimitsExceeded out of query(). int() and float() raise
\* ValueError on what is not a number, the first before any limit is set,
\* the second after the step limit is set
NewLimits ==
    /\ session.phase = "limits"
    /\ \/ \E step_limit \in NewLimitChoices, cost_limit \in NewLimitChoices :
             LET renewed == [RenewLimits(session, step_limit, cost_limit)
                               EXCEPT !.entered = <<step_limit, cost_limit>>,
                                      !.last = "renewed"]
             IN  IF LimitsBreached(renewed, renewed.step_count, renewed.cost)
                 THEN session' =
                        [renewed EXCEPT
                           !.phase = "handle",
                           !.exc = RaiseIn("LimitsExceeded",
                                           SessionLimitsExceeded)]
                 ELSE session' \in QueryReturns(renewed)
       \/ session' = [session EXCEPT !.phase = "handle",
                                     !.exc = SessionValueError]
       \/ \E step_limit \in NewLimitChoices :
             session' = [session EXCEPT !.phase = "handle",
                                        !.step_limit = step_limit,
                                        !.exc = SessionValueError]
    /\ UNCHANGED <<agentVars, verifierVars, batch, parser>>

\* _prompt_and_handle_slash_commands: one input of the user; /m, /h and the
\* command of the mode the session is in prompt again
PromptAndHandleSlashCommands ==
    /\ session.phase = "prompt"
    /\ \E user_input \in IF session.multiline THEN MultilineInputs
                         ELSE UserInputs :
          LET returned == [session EXCEPT !.phase = "answered",
                                          !.user_input = user_input]
              mode     == ModeCommandsMapping(user_input)
          IN  session' =
                IF session.multiline THEN returned
                ELSE IF user_input = <<"/m">>
                  THEN [session EXCEPT !.multiline = TRUE]
                ELSE IF user_input = <<"/h">> THEN session
                ELSE IF mode # "none"
                  THEN IF session.mode = mode THEN session
                       ELSE [returned EXCEPT !.mode = mode]
                ELSE returned
    /\ UNCHANGED <<agentVars, verifierVars, batch, parser>>

\* the user's own command, lines 148-154
UserCommandMessage == SessionMessage("user", "user_command", <<>>)

\* InteractiveAgent.query, lines 144-157: what the user typed in human mode
HumanAnswered ==
    /\ session.phase = "answered"
    /\ session.prompt_for = "human"
    /\ LET command == session.user_input
       IN  IF command \in {<<"/y">>, <<"/c">>}
           THEN session' \in SuperQuery(session)
           ELSE session' = BeginExecute([session EXCEPT !.queries = @ + 1],
                                        UserCommandMessage, <<command>>)
    /\ UNCHANGED <<agentVars, verifierVars, batch, parser>>

\* _ask_confirmation_or_interrupt, lines 230-238
AskConfirmationOrInterrupt ==
    /\ session.phase = "ask"
    /\ LET asked == [session EXCEPT !.asked_mode = session.mode]
       IN  session' =
             IF CommandsNeedingConfirmation(session.mode,
                                            session.whitelist_actions,
                                            session.actions) = <<>>
             THEN [asked EXCEPT !.phase = "execute"]
             ELSE PromptFor(asked, "confirm", FALSE)
    /\ UNCHANGED <<agentVars, verifierVars, batch, parser>>

\* (faulty variant) whatever is not /u confirms
ConfirmsUnlessHuman(user_input) == user_input # <<"/u">>

\* line 240: case "" | "/y"
Confirms(user_input) == user_input \in {<<>>, <<"/y">>}

\* _ask_confirmation_or_interrupt, lines 239-257
ConfirmationAnswered ==
    /\ session.phase = "answered"
    /\ session.prompt_for = "confirm"
    /\ LET user_input == Strip(session.user_input)
       IN  session' =
             IF Confirms(user_input)
               THEN [session EXCEPT
                       !.phase = "execute",
                       !.confirmed = user_input \in {<<>>, <<"/y">>}]
             ELSE IF user_input = <<"/u">>
               THEN [session EXCEPT
                       !.phase = "finally",
                       !.exc = RaiseIn("UserInterruption",
                                 RejectionMessage(<<"Switching to human mode">>))]
             ELSE [session EXCEPT
                     !.phase = "finally",
                     !.exc = RaiseIn("UserInterruption",
                                     RejectionMessage(user_input)),
                     !.last = "rejecting",
                     !.rejection = [NoRejection EXCEPT !.comment = user_input]]
    /\ UNCHANGED <<agentVars, verifierVars, batch, parser>>

\* the exit message Submitted carries
SessionSubmitted == RaiseIn("Submitted", SessionMessage("exit", "Submitted", <<>>))

\* what handle_uncaught_exception records of an exception of the environment
SessionUncaught ==
    RaiseIn("Exception", SessionMessage("exit", "RuntimeError", <<>>))

\* execute_actions, lines 195-198: the next action is passed to the
\* environment, which returns its output, raises Submitted or raises
\* another exception
ExecuteNext ==
    /\ session.phase = "execute"
    /\ Len(session.outputs) < Len(session.actions)
    /\ LET action == session.actions[Len(session.outputs) + 1]
           called == [session EXCEPT !.passed = @ + 1]
       IN  \/ session' = [called EXCEPT !.outputs = Append(@, action)]
           \/ session' = IF session.confirm_exit
                         THEN PromptFor(called, "exit", TRUE)
                         ELSE [called EXCEPT !.phase = "finally",
                                             !.last = "unasked",
                                             !.exc = SessionSubmitted]
           \/ session' = [called EXCEPT !.phase = "finally",
                                        !.exc = SessionUncaught]
    /\ UNCHANGED <<agentVars, verifierVars, batch, parser>>

\* (faulty variant) the submission is raised whatever the user typed
SubmitWhateverTyped(new_task) == SessionSubmitted

\* lines 216-224: a new task raises UserInterruption, no input re-raises
\* the submission
NewTaskOrExit(new_task) ==
    IF new_task # <<>>
    THEN RaiseIn("UserInterruption",
                 SessionMessage("user", "UserNewTask", <<>>))
    ELSE SessionSubmitted

\* _check_for_new_task_or_submit, lines 216-224; `last` keeps whether the
\* user typed a task
NewTaskOrSubmit ==
    /\ session.phase = "answered"
    /\ session.prompt_for = "exit"
    /\ LET new_task == Strip(session.user_input)
       IN  session' =
             [session EXCEPT
                !.phase = "finally",
                !.last = IF new_task # <<>> THEN "new_task" ELSE "quit",
                !.exc = NewTaskOrExit(new_task)]
    /\ UNCHANGED <<agentVars, verifierVars, batch, parser>>

\* Ctrl-C while the user is asked to confirm or for a new task, or while
\* actions are executed
KeyboardInterrupt ==
    /\ \/ session.phase = "prompt" /\ session.prompt_for \in {"confirm", "exit"}
       \/ session.phase = "execute"
    /\ session' = [session EXCEPT
                     !.phase = "finally",
                     !.exc = RaiseIn("KeyboardInterrupt",
                                     SessionMessage("", "", <<>>))]
    /\ UNCHANGED <<agentVars, verifierVars, batch, parser>>

\* format_observation_messages: one message per output
SessionObservations(outs) ==
    [i \in 1..Len(outs) |-> SessionMessage("tool", "observation", <<>>)]

\* (faulty variant) the observations are added only when nothing was raised
ObservationsUnlessRaised(s) ==
    IF s.exc.type = "none" THEN s.added \o SessionObservations(s.outputs)
    ELSE s.added

\* lines 199-202, the finally block: the observations of the outputs
\* collected so far are appended, whatever was raised
ObservationsAdded(s) == s.added \o SessionObservations(s.outputs)

\* execute_actions, lines 199-203: the observations of the outputs there are
\* join the conversation; then the step returns, or what was raised goes on
\* to step() (KeyboardInterrupt, lines 172-177) or to run()
AddObservations ==
    /\ \/ session.phase = "finally"
       \/ /\ session.phase = "execute"
          /\ Len(session.outputs) = Len(session.actions)
    /\ LET added == [session EXCEPT !.added = ObservationsAdded(session)]
       IN  session' =
             IF session.exc.type = "none"
               THEN [EndStep(added, "query") EXCEPT !.step_count = @ + 1]
             ELSE IF session.exc.type = "KeyboardInterrupt"
               THEN PromptFor(added, "interrupt", FALSE)
             ELSE [added EXCEPT !.phase = "handle"]
    /\ UNCHANGED <<agentVars, verifierVars, batch, parser>>

\* InteractiveAgent.step, lines 177-186
Interrupted ==
    /\ session.phase = "answered"
    /\ session.prompt_for = "interrupt"
    /\ LET typed == Strip(session.user_input)
           interruption_message ==
               IF typed = <<>> \/ ModeCommandsMapping(typed) # "none"
               THEN <<"Temporary interruption caught.">> ELSE typed
       IN  session' =
             [session EXCEPT
                !.phase = "handle",
                !.exc = RaiseIn("UserInterruption",
                                SessionMessage("user", "UserInterruption",
                                               interruption_message)),
                !.prompt_for = "none", !.multiline = FALSE,
                !.user_input = <<>>]
    /\ UNCHANGED <<agentVars, verifierVars, batch, parser>>

\* DefaultAgent.run, lines 151-163: what step() raised is in the
\* conversation; the run ends when its last message is an exit message
RunHandles ==
    /\ session.phase = "handle"
    /\ session' =
             [EndStep(session, IF session.exc.message.role = "exit"
                               THEN "ended" ELSE "query") EXCEPT
                !.added = Append(@, session.exc.message),
                !.last = IF session.last = "rejecting" THEN "rejected" ELSE @,
                !.rejection =
                    IF session.last = "rejecting"
                    THEN [@ EXCEPT !.executed = session.passed]
                    ELSE @]
    /\ UNCHANGED <<agentVars, verifierVars, batch, parser>>

SessionInit ==
    /\ InitWith({BaseConfig}, FALSE)
    /\ VerifierIdle
    /\ batch = NoBatch
    /\ parser = NoParser
    /\ \E mode \in {"human", "confirm", "yolo"}, w \in Whitelists,
          confirm_exit \in BOOLEAN :
          session = NewSession(mode, w, confirm_exit, 0, 0)

SessionNext ==
    \/ HumanQuery
    \/ ModelQuery
    \/ PromptAndHandleSlashCommands
    \/ HumanAnswered
    \/ AskConfirmationOrInterrupt
    \/ ConfirmationAnswered
    \/ ExecuteNext
    \/ NewTaskOrSubmit
    \/ KeyboardInterrupt
    \/ AddObservations
    \/ Interrupted
    \/ RunHandles

SessionSpec == SessionInit /\ [][SessionNext]_vars

\* interactive runs with a step limit and a cost limit
LimitsInit ==
    /\ InitWith({BaseConfig}, FALSE)
    /\ VerifierIdle
    /\ batch = NoBatch
    /\ parser = NoParser
    /\ \E mode \in {"human", "confirm"} :
          session = NewSession(mode, {<<"ls">>}, TRUE, 1, 1)

LimitsNext == SessionNext \/ NewLimits

LimitsSpec == LimitsInit /\ [][LimitsNext]_vars

\* ================================================================ claims
\* number of exit messages in a conversation
ExitCount(msgs) == Cardinality({i \in 1..Len(msgs) : msgs[i].role = "exit"})

\* a limit is breached, as the configuration documents the limits
StepLimitReached == config.step_limit > 0 /\ step_count >= config.step_limit
CostLimitReached == config.cost_limit > 0 /\ cost >= config.cost_limit

\* C1: a step() called while the step limit or the cost limit is reached
\* raises LimitsExceeded without querying the model: n_calls, cost,
\* step_count and the conversation are as before the call, for every number
\* of candidates.
C1_LimitStopsStepBeforeQuery ==
    [][ (pc = "loop" /\ (StepLimitReached \/ CostLimitReached))
        => /\ pc' = "handle"
           /\ exc'.kind = "LimitsExceeded"
           /\ n_calls' = n_calls
           /\ cost' = cost
           /\ step_count' = step_count
           /\ messages' = messages ]_vars

C1_Witness ==
    /\ pc = "handle"
    /\ exc.kind = "LimitsExceeded"
    /\ hist.last = "limits"
    /\ config.num_candidates = MaxCandidates
    /\ StepLimitReached
    /\ n_calls = config.step_limit * config.num_candidates

\* the lines of an environment output after its completion marker
AfterMarker(output) ==
    LET first == CHOOSE i \in 1..Len(output.lines) :
                    /\ output.lines[i] = Marker
                    /\ \A j \in 1..(i - 1) : output.lines[j] = "blank"
    IN  SubSeq(output.lines, first + 1, Len(output.lines))

\* C2: when the environment raises Submitted, run() appends the exit message
\* as the last message, leaves the loop and returns exit_status "Submitted"
\* with the output lines after the marker as submission; nothing is queried
\* or executed afterwards.
C2_SubmittedEndsRun ==
    [][ /\ (pc = "handle" /\ exc.kind = "Submitted")
           => /\ Len(messages') = Len(messages) + 1
              /\ SubSeq(messages', 1, Len(messages)) = messages
              /\ messages'[Len(messages')].role = "exit"
              /\ messages'[Len(messages')].exit_status = "Submitted"
              /\ messages'[Len(messages')].submission = AfterMarker(hist.submit_output)
              /\ pc' = "returned"
              /\ result'.exit_status = "Submitted"
              /\ result'.submission = AfterMarker(hist.submit_output)
              /\ n_calls' = n_calls /\ outputs' = outputs
        /\ (pc = "returned") => UNCHANGED vars ]_vars

C2_Witness ==
    /\ pc = "returned"
    /\ result.exit_status = "Submitted"
    /\ result.submission = <<"done", "blank">>
    /\ Len(committed.actions) = 2
    /\ Len(outputs) = 1

\* C3: step_count is the number of step() calls that have returned in this
\* run, whatever the number of candidates and of executed actions.
C3_StepCountIsReturnedSteps == step_count = hist.steps_returned

C3_Witness ==
    /\ step_count = 2
    /\ pc = "handle"
    /\ config.num_candidates = MaxCandidates
    /\ Len(committed.actions) = 2
    /\ n_calls > step_count

\* C4: with a verifier enabled, whatever its select returns, the recorded
\* selected_index is a valid index of the candidates and the committed
\* message is the sampled response at that index.
C4_SelectedIndexClamped ==
    (pc = "execute" /\ config.verifier_enabled)
    => LET v == committed.verifier
       IN  /\ v.enabled
           /\ Len(v.candidates) = Len(responses)
           /\ 0 <= v.selected_index
           /\ v.selected_index <= Len(v.candidates) - 1
           /\ [committed EXCEPT !.verifier = NoVerifier] = responses[v.selected_index + 1]
           /\ messages[Len(messages)] = committed

C4_Witness ==
    /\ pc = "execute"
    /\ config.verifier_enabled
    /\ Len(responses) = 2
    /\ hist.select_returned > Len(responses) - 1
    /\ committed.verifier.selected_index = 1

\* C5 as stated: a breached limit makes run() append exactly one exit
\* message (LimitsExceeded, empty submission) and return its extra without a
\* further query; and with step_limit = k > 0, one candidate per step and
\* steps that complete normally the run makes exactly k model queries.
LimitEndsRun ==
    (pc = "handle" /\ exc.kind = "LimitsExceeded")
    => /\ Len(messages') = Len(messages) + 1
       /\ SubSeq(messages', 1, Len(messages)) = messages
       /\ ExitCount(messages') = 1
       /\ messages'[Len(messages')].role = "exit"
       /\ messages'[Len(messages')].exit_status = "LimitsExceeded"
       /\ messages'[Len(messages')].submission = <<>>
       /\ pc' = "returned"
       /\ result' = Extra(messages'[Len(messages')])
       /\ n_calls' = n_calls

NormalSingleCandidateRun ==
    /\ pc = "returned"
    /\ result.exit_status = "LimitsExceeded"
    /\ config.step_limit > 0
    /\ NumCandidates(config) = 1
    /\ hist.format_errors = 0

C5_Original ==
    /\ [][LimitEndsRun]_vars
    /\ [](NormalSingleCandidateRun => n_calls = config.step_limit)

\* C5 as amended: the run makes exactly k queries when, in addition, the
\* cost limit is not reached at the end of the run.
C5_LimitsExceededEndsRun ==
    /\ [][LimitEndsRun]_vars
    /\ []((NormalSingleCandidateRun /\ ~CostLimitReached)
          => n_calls = config.step_limit)

C5_Witness ==
    /\ NormalSingleCandidateRun
    /\ ~CostLimitReached
    /\ config.cost_limit > 0
    /\ n_calls = 2

\* C6: with step_limit > 0 and cost_limit > 0 every run eventually
\* terminates: run() returns after an exit message or re-raises an
\* unexpected exception, also when steps keep ending in format errors.
C6_RunTerminates == <>(pc \in {"returned", "raised"})

\* C7: a FormatError raised by step() is appended to the conversation when
\* add_format_error_to_conversation is true and leaves the conversation
\* unchanged when it is false; either way the loop goes on to another step,
\* no exit message is appended and the run does not end.
C7_FormatErrorContinues ==
    [][ (pc = "handle" /\ exc.kind = "FormatError")
        => /\ exc.messages = <<FormatErrorMessage>>
           /\ messages' = IF config.add_format_error_to_conversation
                          THEN messages \o exc.messages ELSE messages
           /\ ExitCount(messages') = 0
           /\ pc' = "loop"
           /\ result' = NoResult ]_vars

C7_Witness ==
    /\ pc = "loop"
    /\ hist.last = "caught"
    /\ hist.format_errors = 1
    /\ config.add_format_error_to_conversation
    /\ step_count = 1
    /\ messages[Len(messages)] = FormatErrorMessage

\* C8: an exception of step() that is not an InterruptAgentFlow makes run()
\* append exactly one exit message whose exit_status is the exception's type
\* name and whose submission is empty, save the trajectory with that message
\* when output_path is set, and re-raise the same exception; no step follows.
C8_UncaughtExceptionReraised ==
    [][ /\ (pc = "handle" /\ exc.kind = "Exception")
           => /\ Len(messages') = Len(messages) + 1
              /\ SubSeq(messages', 1, Len(messages)) = messages
              /\ ExitCount(messages') = 1
              /\ messages'[Len(messages')].role = "exit"
              /\ messages'[Len(messages')].exit_status = exc.type
              /\ messages'[Len(messages')].submission = <<>>
              /\ config.output_path
                 => /\ saved'.written
                    /\ saved'.messages = messages'
                    /\ saved'.exit_status = exc.type
              /\ ~config.output_path => saved' = saved
              /\ pc' = "raised"
              /\ exc' = exc
        /\ (pc = "raised") => UNCHANGED vars ]_vars

C8_Witness ==
    /\ pc = "raised"
    /\ exc.kind = "Exception"
    /\ exc.type = "ValueError"
    /\ config.output_path
    /\ saved.exit_status = "ValueError"
    /\ step_count = 1

\* the candidates of the step whose sampling has returned: those recorded on
\* the committed message, or before the commit those of the sampled responses
SampledCandidates ==
    IF pc = "execute" THEN committed.verifier.candidates ELSE CandidateInfos(responses)

\* C9: with use_n false, a query() whose sampling returns has issued exactly
\* max(1, num_candidates) sequential model queries (one when num_candidates
\* is 1) and has that many candidates, indexed 0..N-1 in sampling order.
C9_SequentialSampling ==
    (pc \in {"select", "execute"} /\ ~config.use_n)
    => LET N == IF config.num_candidates > 1 THEN config.num_candidates ELSE 1
       IN  /\ n_calls - hist.step_calls = N
           /\ config.num_candidates = 1 => n_calls - hist.step_calls = 1
           /\ Len(SampledCandidates) = N
           /\ \A i \in 1..Len(SampledCandidates) :
                 /\ SampledCandidates[i].index = i - 1
                 /\ SampledCandidates[i].qid = hist.step_calls + i
                 /\ SampledCandidates[i].choice_index = -1

C9_Witness ==
    /\ pc = "execute"
    /\ ~config.use_n
    /\ config.num_candidates = MaxCandidates
    /\ step_count = 1
    /\ Len(committed.verifier.candidates) = MaxCandidates
    /\ n_calls = 2 * MaxCandidates

\* number of sampled responses that come from the batched response
FromBatch(resps) == Cardinality({i \in 1..Len(resps) : resps[i].batched})

\* C10: with use_n true and num_candidates = N > 1, whenever sampling returns
\* there are exactly N candidates: first the min(k, N) choices of the batched
\* response (one candidate, the raw response, when it cannot be split; none
\* when the batched query raised), then independent queries for the rest.
C10_BatchedSamplingTopsUp ==
    (pc = "select" /\ config.use_n /\ config.num_candidates > 1)
    => LET N == config.num_candidates
           b == FromBatch(responses)
       IN  /\ Len(responses) = N
           /\ \A i \in 1..Len(responses) :
                 /\ responses[i].batched <=> i <= b
                 /\ responses[i].qid = IF i <= b THEN hist.step_calls + 1
                                       ELSE hist.step_calls + 1 + (i - b)
           /\ n_calls - hist.step_calls = 1 + (N - b)
           /\ (hist.batch = "raised") <=> (b = 0)
           /\ b >= 1
              => IF responses[1].raw = "choices"
                 THEN /\ b = Min(Len(responses[1].choices), N)
                      /\ \A i \in 1..b : responses[i].choice_index = i - 1
                 ELSE /\ b = 1
                      /\ responses[1].choice_index = -1

C10_Witness ==
    /\ pc = "select"
    /\ config.use_n
    /\ config.num_candidates = MaxCandidates
    /\ responses[1].batched
    /\ responses[1].raw = "choices"
    /\ Len(responses[1].choices) = 1
    /\ ~responses[Len(responses)].batched

\* C11: with use_n true, an InterruptAgentFlow raised by the batched query
\* leaves sampling at once: no independent query follows in that step, no
\* candidate is kept and no assistant message of that step is committed.
C11_BatchInterruptPropagates ==
    (hist.batch = "interrupted")
    => /\ pc \in {"handle", "loop", "returned"}
       /\ config.use_n /\ config.num_candidates > 1
       /\ pc = "handle" => exc.kind \in {"LimitsExceeded", "FormatError"}
       /\ n_calls - hist.step_calls <= 1
       /\ responses = <<>>
       /\ \A i \in 1..Len(messages) :
             messages[i].role = "assistant" => messages[i].qid <= hist.step_calls

C11_Witness ==
    /\ hist.batch = "interrupted"
    /\ pc = "loop"
    /\ hist.format_errors = 1
    /\ n_calls = hist.step_calls + 1
    /\ config.num_candidates = MaxCandidates

\* whether parsing the choice that response r was split from failed
ChoiceParseFailed(r) ==
    /\ r.batched
    /\ r.raw = "choices"
    /\ r.choice_index >= 0
    /\ r.choices[r.choice_index + 1].err

\* a parse failure in one choice of a batched response is recorded on that
\* candidate and all N candidates reach the verifier
BatchedParseErrorsRecorded ==
    (pc \in {"select", "execute"} /\ config.use_n /\ config.num_candidates > 1)
    => /\ Len(SampledCandidates) = config.num_candidates
       /\ \A i \in 1..Len(responses) :
             SampledCandidates[i].parse_error = ChoiceParseFailed(responses[i])

\* a parse failure reported by an independent query (the model raises
\* FormatError) has ended the sampling of a step with several candidates
IndependentParseFailureAborts ==
    /\ pc = "handle"
    /\ exc.kind = "FormatError"
    /\ NumCandidates(config) > 1
    /\ hist.batch # "interrupted"

\* C12 as stated: a parse failure of one candidate is recorded as its
\* parse_error and never aborts the sampling of its siblings, for candidates
\* of a batched response and for candidates of independent queries alike.
C12_Original ==
    /\ BatchedParseErrorsRecorded
    /\ ~IndependentParseFailureAborts

\* C12 as amended: the parse failure of a choice of a batched response is
\* recorded as that candidate's parse_error and all N candidates reach the
\* verifier; a parse failure of an independent query is raised by the model
\* as FormatError, which ends the step with no candidate committed.
C12_ParseErrorsRecorded ==
    /\ BatchedParseErrorsRecorded
    /\ IndependentParseFailureAborts
       => \A i \in 1..Len(messages) :
             messages[i].role = "assistant" => messages[i].qid <= hist.step_calls

C12_Witness ==
    /\ pc = "execute"
    /\ config.use_n
    /\ config.verifier_enabled
    /\ Len(committed.verifier.candidates) = MaxCandidates
    /\ ~committed.verifier.candidates[1].parse_error
    /\ committed.verifier.candidates[MaxCandidates].parse_error

\* least element of a non-empty set of integers
Least(S) == CHOOSE x \in S : \A y \in S : x <= y

\* positions of the candidates whose action is non-empty
ValidPositions(candidates) ==
    {i \in 1..Len(candidates) : candidates[i].action \notin {NoAction, ""}}

\* the configured fallback: 0 under "first_candidate"; under "first_valid" the
\* index of the first candidate with a non-empty action, 0 if there is none
ExpectedFallback(candidates, fallback) ==
    IF fallback = "first_valid" /\ ValidPositions(candidates) # {}
    THEN Least(ValidPositions(candidates)) - 1
    ELSE 0

\* C13: for every list of candidates and every assignment of parsed rewards
\* _select_best returns the lowest index among the candidates with the
\* maximum parsed reward, unparseable rewards being ignored, and the
\* configured fallback when no reward is parseable.
C13_SelectsLowestIndexOfMaxReward ==
    (vpc = "done" /\ vin.kind = "select_best")
    => LET r == vin.rewards
           parsed == {i \in 1..Len(r) : r[i].parsed}
           best == {i \in parsed : \A j \in parsed : r[j].val <= r[i].val}
       IN  /\ vout.status = "returned"
           /\ vout.selected_index =
                 IF parsed # {} THEN Least(best) - 1
                 ELSE ExpectedFallback(vin.candidates, vin.fallback)

C13_Witness ==
    /\ vpc = "done"
    /\ vin.kind = "select_best"
    /\ vin.rewards = <<NoReward, Reward(MaxReward), Reward(MaxReward)>>
    /\ vout.selected_index = 1

\* the judge answered: the one query of LLMVerifier.select returned an output
JudgeAnswered == vpc = "done" /\ vin.kind = "llm" /\ vout.exc_type # "RuntimeError"

\* C18: LLMVerifier.select makes exactly one query of the judge model, and
\* when the last match of selection_regex is a number whose value minus
\* selection_index_base is an index of the candidate list, that index is the
\* one selected, whatever the earlier matches are.
C18_OneQueryLastMatchWins ==
    (vpc = "done" /\ vin.kind = "llm")
    => /\ vout.queries = 1
       /\ (JudgeAnswered /\ vout.matches # <<>>)
          => LET last == vout.matches[Len(vout.matches)]
                 index == last.val - vin.selection_index_base
             IN  (last.numeric /\ index \in 0..(Len(vin.candidates) - 1))
                 => (vout.status = "returned" /\ vout.selected_index = index)

C18_Witness ==
    /\ JudgeAnswered
    /\ Len(vout.matches) = 2
    /\ vout.matches[1].numeric
    /\ vout.matches[2].numeric
    /\ vout.matches[1].val - vin.selection_index_base = 0
    /\ vout.matches[2].val - vin.selection_index_base = 2
    /\ vout.selected_index = 2

\* C19: when the judge's output has no match, or a last match that is not a
\* number, or a last match whose index is outside the candidate list,
\* LLMVerifier.select returns the configured fallback index and does not
\* raise.
C19_UnusableMatchFallsBack ==
    (JudgeAnswered
     /\ \/ vout.matches = <<>>
        \/ ~vout.matches[Len(vout.matches)].numeric
        \/ (vout.matches[Len(vout.matches)].val - vin.selection_index_base)
              \notin 0..(Len(vin.candidates) - 1))
    => /\ vout.status = "returned"
       /\ vout.selected_index = ExpectedFallback(vin.candidates, vin.fallback)

\* C20: FirstValidVerifier.select returns the index of the first candidate
\* whose action is non-empty, 0 when there is none, queries no model and
\* returns a metadata that holds the verifier type only.
C20_FirstValidSelection ==
    (vpc = "done" /\ vin.kind = "first_valid")
    => /\ vout.status = "returned"
       /\ vout.selected_index =
             IF ValidPositions(vin.candidates) # {}
             THEN Least(ValidPositions(vin.candidates)) - 1
             ELSE 0
       /\ vout.queries = 0
       /\ stats = NoStats
       /\ vout.metadata = [verifier_type |-> "first_valid"]

C20_Witness ==
    /\ vpc = "done"
    /\ vin.kind = "first_valid"
    /\ Len(vin.candidates) = 3
    /\ vin.candidates[1].action = ""
    /\ vin.candidates[2].action = "ls"
    /\ vin.candidates[3].action = "ls"
    /\ vout.selected_index = 1

\* a call of RewardModelVerifier.select is under way or over
Scoring == vin.kind = "reward_model" /\ vpc # "ready"

\* select is over: it returned or raised, and query() may have gone on
SelectOver == vin.kind = "reward_model" /\ vpc \in {"done", "committed", "propagated"}

\* the opening conversation, before any assistant message
NoAssistantMessage == \A k \in 1..Len(messages) : messages[k].role # "assistant"

\* C14: a scoring task makes at most 3 attempts and its first success is its
\* last attempt; when the 3 attempts of some candidate raised, select raises
\* the exception of that candidate's last attempt, returns no index, and
\* query() commits no assistant message, whatever the other tasks returned.
C14_RetriesThenPropagates ==
    Scoring
    => /\ \A i \in 1..Len(tasks) :
             /\ tasks[i].attempts <= 3
             /\ tasks[i].state \in {"finished", "collected"}
                => tasks[i].content = [task |-> i, attempt |-> tasks[i].attempts]
             /\ tasks[i].state = "failed" <=> (tasks[i].attempts = 3
                                               /\ tasks[i].exc.attempt = 3)
       /\ (SelectOver /\ TasksIn({"failed"}) # {})
          => /\ vout.status = "raised"
             /\ vout.selected_index = NoSelection.selected_index
             /\ locals.exc.task \in TasksIn({"failed"})
             /\ locals.exc.attempt = 3
             /\ vpc # "committed"
             /\ committed = BlankMessage
             /\ NoAssistantMessage

C14_Witness ==
    /\ vin.kind = "reward_model"
    /\ vpc = "propagated"
    /\ Len(tasks) = 2
    /\ tasks[1].state = "collected"
    /\ tasks[1].reward = Reward(MaxReward)
    /\ tasks[2].state = "failed"
    /\ exc.kind = "Exception"
    /\ committed = BlankMessage

\* the index _select_best yields on a list of rewards: the lowest index of
\* the maximum parsed reward, the fallback when none is parsed
LowestIndexOfMax(rewards, candidates, fallback) ==
    LET parsed == {i \in 1..Len(rewards) : rewards[i].parsed}
        best == {i \in parsed : \A j \in parsed : rewards[j].val <= rewards[i].val}
    IN  IF parsed # {} THEN Least(best) - 1 ELSE ExpectedFallback(candidates, fallback)

\* C15: in whatever order the scoring tasks complete, the result lists hold
\* at index i the reward, output and cost of candidate i's own query, and the
\* index selected is the one sequential scoring of the same outputs selects.
C15_ResultsByCandidateIndex ==
    Scoring
    => /\ \A i \in TasksIn({"collected"}) :
             /\ locals.rewards[i] = tasks[i].reward
             /\ locals.raw_outputs[i] = tasks[i].content
             /\ locals.raw_outputs[i].task = i
             /\ locals.response_costs[i] = tasks[i].cost
       /\ (SelectOver /\ vout.status = "returned")
          => /\ vout.metadata.rewards = [i \in 1..Len(tasks) |-> tasks[i].reward]
             /\ vout.metadata.raw_outputs = [i \in 1..Len(tasks) |-> tasks[i].content]
             /\ vout.metadata.response_costs = [i \in 1..Len(tasks) |-> tasks[i].cost]
             /\ vout.selected_index =
                   LowestIndexOfMax([i \in 1..Len(tasks) |-> tasks[i].reward],
                                    vin.candidates, vin.fallback)

\* the second candidate's task completed and was collected first
C15_Witness ==
    /\ vin.kind = "reward_model"
    /\ vpc = "collect"
    /\ Len(tasks) = 2
    /\ tasks[2].state = "collected"
    /\ tasks[1].state = "running"
    /\ tasks[2].reward = Reward(MaxReward)
    /\ tasks[2].cost = 1
    /\ locals.rewards = <<NoReward, Reward(MaxReward)>>
    /\ locals.response_costs = <<0, 1>>

\* C16: the scoring tasks share no mutable state but the result slots: no
\* two of them write the process-wide cost statistics.
C16_TasksShareNoState ==
    Scoring => Cardinality(stats.updated_by) <= 1

\* C17: one scoring task is submitted per candidate, and at no moment do more
\* than min(len(candidates), 8) scoring tasks run.
C17_OneTaskPerCandidateBoundedPool ==
    Scoring
    => /\ Len(tasks) = Len(vin.candidates)
       /\ \A i \in 1..Len(tasks) : tasks[i].submits <= 1
       /\ vpc # "submit" => \A i \in 1..Len(tasks) : tasks[i].submits = 1
       /\ Cardinality(TasksIn({"running"})) <= Min(Len(vin.candidates), 8)

\* nine candidates: eight tasks run and the ninth waits for a free worker
C17_Witness ==
    /\ vin.kind = "reward_model"
    /\ Len(vin.candidates) = 9
    /\ vpc = "collect"
    /\ Cardinality(TasksIn({"running"})) = 8
    /\ tasks[9].state = "queued"

\* query() has just committed a message
JustCommitted == pc = "execute" /\ hist.last = "commit"

\* C21: with the verifier disabled query() commits the first sampled
\* response, whatever the others are, with metadata enabled = false, type
\* "none", selected_index 0 and every candidate, and calls no verifier.
C21_DisabledVerifierCommitsFirst ==
    ~config.verifier_enabled
    => /\ ~hist.verifier_called
       /\ stats = NoStats
       /\ JustCommitted
          => /\ committed = [responses[1] EXCEPT !.verifier =
                                [enabled |-> FALSE, type |-> "none",
                                 selected_index |-> 0,
                                 candidates |-> CandidateInfos(responses)]]
             /\ Len(committed.verifier.candidates) = Len(responses)
             /\ messages[Len(messages)] = committed

C21_Witness ==
    /\ ~config.verifier_enabled
    /\ JustCommitted
    /\ Len(responses) = 2
    /\ responses[1].actions = <<>>
    /\ responses[2].actions # <<>>
    /\ committed.qid = responses[1].qid
    /\ committed.actions = <<>>

\* a message of the conversation is response r, verifier tag aside
IsResponse(m, r) == [m EXCEPT !.verifier = NoVerifier] = [r EXCEPT !.verifier = NoVerifier]

\* the 1-based position of the candidate a committed message was selected as
SelectedPosition(m) == m.verifier.selected_index + 1

\* C22: query() appends one message, a copy of the selected candidate, and
\* no unselected candidate's response enters the conversation; a step that
\* returns has appended that message, then the observation messages of its
\* actions, and nothing else.
C22_OneMessagePerQuery ==
    LET n == hist.step_len
    IN  /\ pc \in {"sample", "batch", "select"} => Len(messages) = n
        /\ pc = "execute"
           => /\ Len(messages) = n + 1
              /\ messages[n + 1] = committed
              /\ SelectedPosition(committed) \in 1..Len(responses)
              /\ IsResponse(committed, responses[SelectedPosition(committed)])
              /\ \A i \in 1..Len(responses) :
                    i # SelectedPosition(committed)
                    => \A k \in 1..Len(messages) : ~IsResponse(messages[k], responses[i])
        /\ (pc = "handle" /\ hist.last = "return")
           => /\ Len(messages) >= n + 1
              /\ messages[n + 1] = committed
              /\ SubSeq(messages, n + 2, Len(messages))
                    = FormatObservationMessages(committed, outputs)
              /\ Len(outputs) = Len(committed.actions)
              /\ \A i \in 1..Len(responses) :
                    i # SelectedPosition(committed)
                    => \A k \in 1..Len(messages) : ~IsResponse(messages[k], responses[i])

C22_Witness ==
    /\ pc = "handle"
    /\ hist.last = "return"
    /\ Len(responses) = 2
    /\ SelectedPosition(committed) = 2
    /\ Len(committed.actions) = 1
    /\ Len(messages) = hist.step_len + 2
    /\ messages[Len(messages)].role = "tool"

IsPrefix(a, b) == Len(a) <= Len(b) /\ SubSeq(b, 1, Len(a)) = a

\* C23: during a run the conversation only grows: every step of the agent
\* leaves the previous message list a prefix of the new one.
C23_ConversationOnlyGrows == [][IsPrefix(messages, messages')]_vars

\* a run that returned after a step, a format error and an exit message
C23_Witness ==
    /\ pc = "returned"
    /\ hist.steps_returned >= 1
    /\ hist.format_errors = 1
    /\ Len(messages) >= 5
    /\ LastIsExit(messages)

\* the observation messages a returned step appended
Observations == SubSeq(messages, hist.step_len + 2, Len(messages))

\* C24: step() passes the actions of the committed message to the
\* environment one after the other in their order, appends no observation
\* before the last of them has returned, and hands the outputs to the
\* observation formatting in the order of their actions.
C24_ActionsExecutedInOrder ==
    LET k == Len(committed.actions)
    IN  /\ pc = "execute"
           => /\ Len(messages) = hist.step_len + 1
              /\ Len(hist.executed) = Len(outputs)
              /\ \A j \in 1..Len(outputs) :
                    hist.executed[j] = [action |-> committed.actions[j],
                                        output |-> outputs[j]]
        /\ (pc = "handle" /\ hist.last = "return")
           => /\ Len(hist.executed) = k
              /\ Len(Observations) = k
              /\ \A j \in 1..k :
                    /\ hist.executed[j].action = committed.actions[j]
                    /\ Observations[j].actions = <<hist.executed[j].action>>
                    /\ Observations[j].output = hist.executed[j].output
        /\ (pc = "handle" /\ hist.last = "raise" /\ hist.executed # <<>>)
           => \A j \in 1..Len(hist.executed) :
                 hist.executed[j].action = committed.actions[j]

\* two actions with different outputs, executed and observed in order
C24_Witness ==
    /\ pc = "handle"
    /\ hist.last = "return"
    /\ Len(committed.actions) = 2
    /\ hist.executed[1].output # hist.executed[2].output
    /\ Observations[2].output = hist.executed[2].output

\* execute built this output for a command that timed out
TimedOut(o) == o.returncode = -1 /\ o.exception_info = "timed out"

\* the current or last step executed a command that timed out
StepTimedOut == \E j \in 1..Len(hist.executed) : TimedOut(hist.executed[j].output)

OwnEntry(i) ==
    [present |-> TRUE, instance_id |-> i,
     result |-> IF batch.inst[i].exit_status = "Submitted"
                THEN Submission(i) ELSE NoSubmission]

\* C26: without an operator interrupt, whatever raises while other instances
\* are processed and however the workers interleave, no instance is
\* cancelled, every instance is processed to its end, and every instance
\* that returns has recorded its own result under its own id.
C26_InstanceFailuresAreIsolated ==
    (batch.phase # "none" /\ batch.interrupts = 0)
    => /\ InstancesIn({"cancelled"}) = {}
       /\ \A i \in 1..Len(batch.inst) :
             /\ batch.preds[i].present => batch.preds[i].instance_id = i
             /\ batch.inst[i].state = "done" => batch.preds[i] = OwnEntry(i)
             /\ (batch.inst[i].state = "done" /\ batch.inst[i].agent)
                => (batch.traj[i].present /\ batch.traj[i].instance_id = i)
       /\ batch.phase = "finished"
          => /\ InstancesIn({"done", "raised"}) = 1..Len(batch.inst)
             /\ batch.logged = InstancesIn({"raised"})

\* one worker: the first instance fails while saving, the second still
\* runs and records its submission
C26_Witness ==
    /\ batch.phase = "finished"
    /\ batch.interrupts = 0
    /\ batch.workers = 1
    /\ Len(batch.inst) = 2
    /\ batch.inst[1].at = "save_raised"
    /\ batch.inst[2].state = "done"
    /\ batch.preds[2].result = Submission(2)
    /\ ~batch.preds[1].present

\* C27: after an operator interrupt no instance whose work had not started
\* when the interrupt arrived ever runs; the running ones finish and record
\* their results; nothing starts once the interrupt is handled.
C27_InterruptCancelsPending ==
    batch.interrupts >= 1
    => /\ \A i \in batch.pending_at_interrupt :
             batch.inst[i].state \in {"new", "queued", "cancelled"}
       /\ batch.phase \in {"finished", "aborted"}
          => InstancesIn({"queued", "running"}) = {}
       /\ \A i \in 1..Len(batch.inst) :
             batch.inst[i].started_after \notin {"collect_again", "unwind"}

\* the parser state is that of a call of _parse_tool_call_actions
ParsingToolCalls == "errors" \in DOMAIN parser

\* an entry the contract calls well-formed: function name "bash", arguments
\* a mapping, or a valid JSON text of a mapping, containing "command"
WellFormed(tool_call) ==
    /\ tool_call.is_dict
    /\ tool_call.function.is_mapping
    /\ tool_call.function.name = "bash"
    /\ LET raw == tool_call.arguments
           arguments == IF raw.is_str THEN JsonLoads(raw.text) ELSE raw.value
       IN  arguments.type = "dict" /\ arguments.has_command

\* the actions of the well-formed entries, in their order, each with the id
\* of its entry when the entry has a non-empty one
RECURSIVE WellFormedActions(_)
WellFormedActions(tool_calls) ==
    IF tool_calls = <<>> THEN <<>>
    ELSE LET tool_call == Head(tool_calls)
             raw == tool_call.arguments
             arguments == IF raw.is_str THEN JsonLoads(raw.text) ELSE raw.value
         IN  (IF WellFormed(tool_call)
              THEN <<[command |-> arguments.command,
                      tool_call_id |-> IF tool_call.id = "" THEN AbsentId
                                       ELSE tool_call.id]>>
              ELSE <<>>)
             \o WellFormedActions(Tail(tool_calls))

\* C28: for every list of tool-call entries _parse_tool_call_actions returns,
\* and what it returns is: as actions exactly the well-formed entries in
\* their original order, each with its tool-call id when it has one, and one
\* error per malformed entry; no malformed entry keeps a later entry from
\* being parsed
C28_ToolCallsParsedIndependently ==
    ParsingToolCalls
    => /\ parser.phase # "raised"
       /\ parser.phase = "returned"
          => /\ parser.actions = WellFormedActions(parser.tool_calls)
             /\ Len(parser.errors) + Len(parser.actions)
                  = Len(parser.tool_calls)
             /\ (parser.parse_error = None) = (parser.errors = <<>>)

\* a free-text parse has ended: extract_action_from_response, select_action,
\* or _parse_actions_from_choice of a choice without tool calls under a
\* model that has an action pattern
FreeTextParsed ==
    /\ "result" \in DOMAIN parser
    /\ parser.phase \in {"returned", "raised"}
    /\ "is_dict" \in DOMAIN parser => parser.is_dict /\ parser.action_regex

\* the matches of the action pattern in the text of the assistant messages
RECURSIVE StepMatches(_)
StepMatches(step_messages) ==
    IF step_messages = <<>> THEN <<>>
    ELSE (IF Head(step_messages).role = "assistant"
          THEN Findall(Head(step_messages).content.stretches) ELSE <<>>)
         \o StepMatches(Tail(step_messages))

\* the matches of the action pattern in the response that was parsed
ResponseMatches ==
    IF "step_messages" \in DOMAIN parser
    THEN StepMatches(parser.step_messages)
    ELSE Findall(parser.content.stretches)

\* the text of a parsed action: _parse_actions_from_choice returns a dict
\* with the command, the other two return the text
ActionText(action) ==
    IF "is_dict" \in DOMAIN parser THEN action.command ELSE action

\* C29: a free-text parse yields an action only when the action pattern
\* matched exactly once, and the action is that match stripped; with no
\* match or with several the parse yields no action and signals an error
\* that carries the number of matches
C29_ExactlyOneMatchOrError ==
    FreeTextParsed
    => LET found == ResponseMatches
           res   == parser.result
       IN  /\ res.actions # <<>>
              => /\ Len(found) = 1
                 /\ Len(res.actions) = 1
                 /\ ActionText(res.actions[1]) = Strip(found[1])
           /\ Len(found) # 1
              => /\ res.actions = <<>>
                 /\ res.error # None
                 /\ res.found = Len(found)

\* the positions of the rejection messages among the messages added since
\* the last query began
RejectionsAdded ==
    {i \in 1..Len(session.added) : session.added[i].kind = "UserRejection"}

\* C30: in confirm mode an action that matches no whitelist pattern is
\* passed to the environment only in a step the user confirmed with an
\* empty input or /y; and when the user has rejected with a comment, no
\* action of the step was executed, exactly one rejection message was
\* appended, it carries the comment and is the last message, and the run is
\* back at the query of the model, in confirm mode
C30_ConfirmModeAsksBeforeExecuting ==
    /\ \A i \in 1..session.passed :
          (/\ session.asked_mode = "confirm"
           /\ ~\E r \in session.whitelist_actions :
                  ReMatch(r, session.actions[i]))
          => session.confirmed
    /\ session.last = "rejected"
       => /\ session.rejection.comment \notin {<<>>, <<"/y">>, <<"/u">>}
          /\ session.rejection.executed = 0
          /\ RejectionsAdded = {Len(session.added)}
          /\ session.added[Len(session.added)]
               = SessionMessage("user", "UserRejection",
                                session.rejection.comment)
          /\ session.phase = "query"
          /\ session.mode = "confirm"

C30_Witness ==
    /\ session.last = "rejected"
    /\ session.rejection.comment = <<"no">>
    /\ session.queries = 1
    /\ session.whitelist_actions = {<<"ls">>}
    /\ session.phase = "query"

\* one step of an interactive run at which the limits matter
C31_Step ==
    /\ (/\ session.phase = "query"
        /\ session.mode # "human"
        /\ LimitsBreached(session, session.step_count, session.cost)
        /\ session' # session)
       => /\ session'.phase = "limits"
          /\ session'.n_calls = session.n_calls
          /\ session'.added = session.added
    /\ (/\ session.phase = "limits"
        /\ session' # session
        /\ session'.exc.type # "ValueError")
       => /\ session'.step_limit = session'.entered[1]
          /\ session'.cost_limit = session'.entered[2]
          /\ session'.step_count = session.step_count
          /\ IF LimitsBreached(session', session.step_count, session.cost)
             THEN /\ session'.phase = "handle"
                  /\ session'.exc.type = "LimitsExceeded"
                  /\ session'.n_calls = session.n_calls
             ELSE /\ session'.phase = "ask"
                  /\ session'.exc = NoInterruption
                  /\ session'.n_calls = session.n_calls + 1
                  /\ session'.added
                       = <<SessionMessage("assistant", "assistant", <<>>)>>

\* C31: when a limit is breached as the interactive agent is about to query
\* the model, the model is not queried and no message is added; the user is
\* asked for a new step limit and a new cost limit, the configuration takes
\* both, and the query is made again: under limits that are no longer
\* breached the model answers and the run goes on with no exit message,
\* under limits that are still breached LimitsExceeded ends the run
C31_LimitsRenewedAndQueryRetried == [][C31_Step]_vars

\* the limits have been renewed for the second time in one run
C31_Witness ==
    /\ session.phase = "ask"
    /\ session.last = "renewed"
    /\ session.entered = <<0, 0>>
    /\ session.step_count = 2
    /\ session.n_calls = 3
    /\ session.cost_limit = 0

\* the positions, among the messages added since the last query began, of
\* the messages of one kind and of the exit messages
AddedOfKind(kind) ==
    {i \in 1..Len(session.added) : session.added[i].kind = kind}

ExitsAdded ==
    {i \in 1..Len(session.added) : session.added[i].role = "exit"}

\* C32: with confirm_exit, a submission after which the user types a new
\* task appends no exit message and exactly one new-task message, and the
\* run goes on to the next query; a run that has ended as Submitted has
\* ended at a submission where the user entered nothing; without
\* confirm_exit the user is never asked and the submission ends the run
C32_NewTaskContinuesRun ==
    /\ session.last = "new_task"
       => /\ session.confirm_exit
          /\ session.phase \in {"finally", "handle", "query"}
          /\ ExitsAdded = {}
          /\ session.phase = "query"
             => /\ AddedOfKind("UserNewTask") = {Len(session.added)}
                /\ session.added[Len(session.added)].role = "user"
    /\ (session.phase = "ended" /\ AddedOfKind("Submitted") # {})
       => /\ AddedOfKind("Submitted") = {Len(session.added)}
          /\ AddedOfKind("UserNewTask") = {}
          /\ session.last = IF session.confirm_exit THEN "quit" ELSE "unasked"
    /\ ~session.confirm_exit
       => /\ session.prompt_for # "exit"
          /\ session.last \notin {"new_task", "quit"}
          /\ session.exc.type = "Submitted"
             => session.phase \in {"finally", "handle"}
    /\ session.last \in {"quit", "unasked"}
       => /\ session.phase \in {"finally", "handle", "ended"}
          /\ session.phase # "ended" => session.exc.type = "Submitted"

\* the user has added a new task after the second of two actions submitted
C32_Witness ==
    /\ session.last = "new_task"
    /\ session.phase = "query"
    /\ Len(session.added) = 3
    /\ session.queries = 1

\* one step of an interactive run seen from human mode
C33_Step ==
    /\ (/\ session.phase = "answered"
        /\ session.prompt_for = "human"
        /\ session.user_input \notin {<<"/y">>, <<"/c">>}
        /\ session' # session)
       => /\ session'.n_calls = session.n_calls
          /\ session'.actions = <<session.user_input>>
          /\ session'.phase = "ask"
    /\ session'.n_calls > session.n_calls => session.mode # "human"

\* C33: in human mode a command of the user other than /y and /c is the
\* single action of the step and the model is not queried (n_calls is
\* unchanged); the model is queried only in yolo or confirm mode
C33_HumanModeNeverQueriesModel == [][C33_Step]_vars

\* run() takes over what execute_actions let through
C36_Step ==
    (/\ session.phase = "handle"
     /\ session.asked_mode # "none"
     /\ session' # session)
    => LET n == Len(session.outputs)
       IN  /\ session.passed > n => n = session.passed - 1
           /\ Len(session'.added) = n + 2
           /\ \A i \in 2..(n + 1) : session'.added[i].kind = "observation"
           /\ session'.added[n + 2] = session.exc.message
           /\ session'.added[n + 2].role \in {"exit", "user"}

\* C36: when execute_actions of the interactive agent is left by an
\* exception (a submission, a rejection, an interruption or any other
\* exception) after n outputs were collected, the conversation holds, after
\* the message whose actions were executed, the n observation messages of
\* these outputs and only then the interrupt or exit message
C36_PartialOutputsObservedFirst == [][C36_Step]_vars

\* the second of two actions raised an exception of the environment: the
\* observation of the first precedes the exit message
C36_Witness ==
    /\ session.phase = "ended"
    /\ Len(session.added) = 3
    /\ session.added[2].kind = "observation"
    /\ session.added[3].kind = "RuntimeError"

\* ------------------------------------------ similarity of the candidates
\* the commands of a candidate, as the tokens str.split() gives
GateCommands ==
    { <<>>, <<"pytest", "-q">>, <<"-q", "pytest">>, <<"pytest">>, <<"ls">> }

\* _candidate_signature: the set of the tokens of the candidate's commands
CandidateSignature(command) == {command[i] : i \in 1..Len(command)}

\* _similarity, token_jaccard: a fraction <<numerator, denominator>>
Similarity(left, right) ==
    IF left = {} /\ right = {} THEN <<1, 1>>
    ELSE IF left = {} \/ right = {} THEN <<0, 1>>
    ELSE <<Cardinality(left \cap right), Cardinality(left \cup right)>>

\* similarity >= threshold, the threshold in hundredths
AtLeast(similarity, threshold) ==
    similarity[1] * 100 >= threshold * similarity[2]

\* analyze_action_similarity: should_skip_verifier
ShouldSkipVerifier(candidates, threshold) ==
    /\ Len(candidates) >= 2
    /\ \A i \in 1..Len(candidates) : \A j \in (i + 1)..Len(candidates) :
          AtLeast(Similarity(CandidateSignature(candidates[i]),
                             CandidateSignature(candidates[j])), threshold)

\* action_similarity_threshold of the configuration, in hundredths
SimilarityThresholds == {50, 90}

\* query() is about to select among candidates that were sampled under a
\* configuration dict with the similarity keys
GateInit ==
    /\ InitWith({BaseConfig}, FALSE)
    /\ ExtIdle
    /\ vpc = "ready"
    /\ \E n \in 1..MaxVerified, skip \in BOOLEAN,
          threshold \in SimilarityThresholds,
          verifier_type \in {"first_valid", "llm"} :
          \E candidates \in [1..n -> GateCommands] :
             vin = [kind |-> "gate", candidates |-> candidates,
                    skip_if_actions_similar |-> skip,
                    action_similarity_threshold |-> threshold,
                    verifier_type |-> verifier_type]
    /\ vout = NoSelection
    /\ tasks = <<>>
    /\ stats = NoStats
    /\ locals = NoLocals

\* query(), lines 196-209: self.verifier.select is called whenever a
\* verifier was built; the LLM verifier queries its model once
GateSelect ==
    /\ vpc = "ready"
    /\ vin.kind = "gate"
    /\ \E raw \in -1..(Len(vin.candidates) + 1), c \in QueryCosts :
          /\ vout' = [vout EXCEPT
                        !.status = "selected",
                        !.selected_index = raw,
                        !.queries = IF vin.verifier_type = "llm" THEN 1 ELSE 0]
          /\ stats' = IF vin.verifier_type = "llm"
                      THEN StatsAdd(stats, c, "judge") ELSE stats
    /\ vpc' = "selected"
    /\ UNCHANGED <<agentVars, extVars, vin, tasks, locals>>

\* query(), lines 210-218: the index is clamped and the metadata built
GateCommit ==
    /\ vpc = "selected"
    /\ vin.kind = "gate"
    /\ vout' = [vout EXCEPT
                  !.status = "returned",
                  !.selected_index = ClampIndex(@, Len(vin.candidates)),
                  !.metadata = [enabled |-> TRUE, type |-> vin.verifier_type,
                                skipped |-> FALSE,
                                should_skip_verifier |-> FALSE]]
    /\ vpc' = "done"
    /\ UNCHANGED <<agentVars, extVars, vin, tasks, stats, locals>>

GateNext == GateSelect \/ GateCommit

GateSpec == GateInit /\ [][GateNext]_vars

\* C34: with skip_if_actions_similar set and at least two candidates whose
\* actions are all pairwise similar at or above the threshold, query() has
\* not queried the verifier model, records the verifier type
\* "similarity_gate" with skipped and should_skip_verifier true, selects an
\* index in the candidate range and adds nothing to the verifier cost
C34_SimilarityGateSkipsVerifier ==
    (/\ vpc = "done"
     /\ vin.kind = "gate"
     /\ vin.skip_if_actions_similar
     /\ ShouldSkipVerifier(vin.candidates, vin.action_similarity_threshold))
    => /\ vout.queries = 0
       /\ vout.metadata.type = "similarity_gate"
       /\ vout.metadata.skipped
       /\ vout.metadata.should_skip_verifier
       /\ InCandidateRange(vout.selected_index, vin.candidates)
       /\ stats.cost = 0

\* ------------------------------------------------- _get_verifier_steps
\* the roles of the messages of a conversation
HistoryRoles == {"system", "user", "assistant", "tool"}

\* conversations of n messages; `at` tells the messages apart
Conversations(n) ==
    { [i \in 1..n |-> [role |-> roles[i], at |-> i]] :
        roles \in [1..n -> HistoryRoles] }

\* _is_assistant_message
IsAssistantMessage(message) == message.role = "assistant"

\* lines 406-418: the loop over self.messages, from message i on
RECURSIVE GroupSteps(_, _, _, _, _)
GroupSteps(msgs, i, steps, current_step, started) ==
    IF i > Len(msgs)
    THEN IF current_step # <<>> THEN Append(steps, current_step) ELSE steps
    ELSE IF IsAssistantMessage(msgs[i])
      THEN GroupSteps(msgs, i + 1,
                      IF current_step # <<>> THEN Append(steps, current_step)
                      ELSE steps,
                      <<msgs[i]>>, TRUE)
    ELSE IF started
      THEN GroupSteps(msgs, i + 1, steps, Append(current_step, msgs[i]), TRUE)
    ELSE GroupSteps(msgs, i + 1, steps, current_step, started)

\* seq[start:] of Python
PySliceFrom(seq, start) ==
    LET begin == IF start < 0 THEN Max(Len(seq) + start, 0)
                 ELSE Min(start, Len(seq))
    IN  SubSeq(seq, begin + 1, Len(seq))

\* lines 420-423
LastSteps(steps, history_steps) ==
    IF history_steps < 0 THEN steps ELSE PySliceFrom(steps, 0 - history_steps)

HistoryInit ==
    /\ InitWith({BaseConfig}, FALSE)
    /\ ExtIdle
    /\ vpc = "ready"
    /\ \E n \in 0..MaxHistory, history_steps \in -1..MaxHistory :
          \E msgs \in Conversations(n) :
             vin = [kind |-> "steps", messages |-> msgs,
                    history_steps |-> history_steps]
    /\ vout = NoSelection
    /\ tasks = <<>>
    /\ stats = NoStats
    /\ locals = NoLocals

\* _get_verifier_steps, lines 406-418
GetVerifierStepsGroup ==
    /\ vpc = "ready"
    /\ vin.kind = "steps"
    /\ vout' = [status |-> "grouped",
                steps |-> GroupSteps(vin.messages, 1, <<>>, <<>>, FALSE)]
    /\ vpc' = "grouped"
    /\ UNCHANGED <<agentVars, extVars, vin, tasks, stats, locals>>

\* _get_verifier_steps, lines 420-423
GetVerifierStepsReturn ==
    /\ vpc = "grouped"
    /\ vin.kind = "steps"
    /\ vout' = [status |-> "returned",
                steps |-> LastSteps(vout.steps, vin.history_steps)]
    /\ vpc' = "done"
    /\ UNCHANGED <<agentVars, extVars, vin, tasks, stats, locals>>

HistoryNext == GetVerifierStepsGroup \/ GetVerifierStepsReturn

HistorySpec == HistoryInit /\ [][HistoryNext]_vars

\* the steps of a conversation: each assistant message with the messages
\* that follow it up to the next assistant message
AssistantPositions(msgs) ==
    {i \in 1..Len(msgs) : msgs[i].role = "assistant"}

StepFrom(msgs, i) ==
    LET later == {j \in AssistantPositions(msgs) : j > i}
        until == IF later = {} THEN Len(msgs)
                 ELSE (CHOOSE j \in later : \A k \in later : j <= k) - 1
    IN  SubSeq(msgs, i, until)

\* C35: the verifier is given the messages of the min(history_steps, all)
\* most recent steps, in their order, for every history_steps >= 0, and
\* every step when history_steps is -1
C35_VerifierSeesRecentSteps ==
    (vpc = "done" /\ vin.kind = "steps")
    => LET at    == AssistantPositions(vin.messages)
           total == Cardinality(at)
           given == vout.steps
           kept  == IF vin.history_steps = -1 THEN total
                    ELSE Min(vin.history_steps, total)
       IN  /\ Len(given) = kept
           /\ \A k \in 1..Len(given) :
                 /\ given[k][1].at \in at
                 /\ given[k] = StepFrom(vin.messages, given[k][1].at)
                 /\ Cardinality({i \in at : i > given[k][1].at})
                      = Len(given) - k

\* a limit is set and reached, as the claims word it
LimitReached(step_limit, cost_limit, steps, spent) ==
    \/ (step_limit > 0 /\ steps >= step_limit)
    \/ (cost_limit > 0 /\ spent >= cost_limit)

\* the most one query of the model costs (ResponseKinds, BatchedKinds)
DearestQuery ==
    LET costs == {r.cost : r \in ResponseKinds \cup BatchedKinds}
    IN  CHOOSE c \in costs : \A d \in costs : d <= c

\* one step of the agent seen from its limits
C37_Step ==
    /\ (n_calls' # n_calls \/ cost' # cost)
       => /\ ~LimitReached(config.step_limit, config.cost_limit,
                           step_count, cost)
          /\ n_calls' = n_calls + 1
          /\ cost' - cost \in 0..DearestQuery
    /\ config.cost_limit > 0 => cost' < config.cost_limit + DearestQuery
    /\ hist'.last = "limits_mid"
       => /\ pc' = "handle"
          /\ exc'.kind = "LimitsExceeded"
          /\ messages' = messages
          /\ Len(messages) = hist.step_len

\* C37: every query of the acting model, the second to the last candidate
\* of a step included, is made in a state where neither limit is reached;
\* so the cost stays below cost_limit plus the cost of one query, and a step
\* whose sampling reaches a limit part-way raises LimitsExceeded without
\* having added a message
C37_QueriesOnlyWithinLimits == [][C37_Step]_vars

\* the first candidate's query reached the cost limit and the second was
\* refused
C37_Witness ==
    /\ hist.last = "limits_mid"
    /\ pc = "handle"
    /\ n_calls = hist.step_calls + 1
    /\ cost = config.cost_limit
    /\ config.cost_limit > 0

\* step() is left by an exception
StepRaises ==
    /\ pc \in {"loop", "sample", "batch", "select", "execute"}
    /\ pc' = "handle"
    /\ exc'.kind # "none"

\* one step of the agent seen from its counters
C38_Step ==
    /\ StepRaises
       => /\ step_count' = step_count
          /\ hist.steps_returned = step_count
          /\ n_calls' >= hist.step_calls \/ pc = "loop"
          /\ cost' = cost
    /\ (StepRaises /\ pc \in {"sample", "batch"}
                   /\ exc'.kind # "LimitsExceeded")
       => n_calls' = n_calls + 1
    /\ (StepRaises /\ ~(pc \in {"sample", "batch"}
                         /\ exc'.kind # "LimitsExceeded"))
       => n_calls' = n_calls
    /\ pc # "init" => (n_calls' >= n_calls /\ cost' >= cost)
    /\ step_count' # step_count
       => (pc = "init" \/ (hist'.last = "return" /\ exc'.kind = "none"))

\* C38: a step that raises leaves step_count unchanged; n_calls and cost
\* keep what the queries of that step added and are never lowered; a query
\* of the model that raises has been counted in n_calls and has added no cost
C38_RaisingStepKeepsCallsAndCost == [][C38_Step]_vars

\* the second candidate's query raised FormatError after the first had cost 1
C38_Witness ==
    /\ pc = "handle"
    /\ exc.kind = "FormatError"
    /\ n_calls = hist.step_calls + 2
    /\ cost = 1
    /\ step_count = 0

\* one step of a query() whose candidates a verifier model scores
C39_Step ==
    /\ cost' = SumCosts(responses')
    /\ n_calls' = Len(responses')
    /\ stats' # stats => (cost' = cost /\ n_calls' = n_calls)
    /\ vpc' \in {"committed", "propagated"}
       => (cost' = cost /\ n_calls' = n_calls)

NewWorker(n) ==
    [at |-> "remove_check", local |-> [j \in 1..n |-> NoEntry],
     result |-> NoSubmission, agent |-> FALSE, final |-> FALSE]

\* the entry update_preds_file writes for instance i
PredsEntry(i, patch) == [present |-> TRUE, instance_id |-> i, result |-> patch]

\* (faulty variant) the file is read and written without the lock
LockIgnored(lock) == TRUE

\* `with _OUTPUT_FILE_LOCK:` is entered when no thread holds the lock
LockFree(lock) == lock = 0

PredsInit ==
    /\ InitWith({BaseConfig}, FALSE)
    /\ VerifierIdle
    /\ parser = NoParser
    /\ session = NoSession
    /\ \E n \in 1..MaxInstances, stale \in BOOLEAN :
          batch = [phase |-> "preds", exists |-> stale, lock |-> 0,
                   file |-> [j \in 1..n |-> IF stale THEN StaleEntry(j)
                                             ELSE NoEntry],
                   w |-> [j \in 1..n |-> NewWorker(n)]]

PredsWorkers == IF batch.phase = "preds" THEN DOMAIN batch.w ELSE {}

\* remove_from_preds_file, lines 125-126: exists() is asked without the lock
PredsRemoveCheck(i) ==
    /\ batch.w[i].at = "remove_check"
    /\ batch' = [batch EXCEPT !.w[i].at = IF batch.exists THEN "remove_read"
                                          ELSE "try"]
    /\ UNCHANGED <<agentVars, verifierVars, parser, session>>

\* lines 127-128: the lock is taken and the file read
PredsRemoveRead(i) ==
    /\ batch.w[i].at = "remove_read"
    /\ LockFree(batch.lock)
    /\ batch' = [batch EXCEPT !.lock = i, !.w[i].local = batch.file,
                              !.w[i].at = "remove_write"]
    /\ UNCHANGED <<agentVars, verifierVars, parser, session>>

\* lines 129-131: the entry of the instance, if there, is deleted and the
\* file written; the lock is released
PredsRemoveWrite(i) ==
    /\ batch.w[i].at = "remove_write"
    /\ batch' = [batch EXCEPT
                   !.file = IF batch.w[i].local[i].present
                            THEN [batch.w[i].local EXCEPT ![i] = NoEntry]
                            ELSE @,
                   !.lock = 0, !.w[i].at = "try"]
    /\ UNCHANGED <<agentVars, verifierVars, parser, session>>

\* process_instance, lines 155-184: get_model raises before the try, or the
\* try block ends: the run returned a submission, or the environment or the
\* run raised and the result is ""
PredsTry(i) ==
    /\ batch.w[i].at = "try"
    /\ \/ batch' = [batch EXCEPT !.w[i].at = "raised"]
       \/ \E agent \in BOOLEAN, ok \in BOOLEAN :
             /\ ok => agent
             /\ batch' = [batch EXCEPT
                            !.w[i].agent = agent, !.w[i].final = TRUE,
                            !.w[i].result = IF ok THEN Submission(i)
                                            ELSE NoSubmission,
                            !.w[i].at = IF agent THEN "save" ELSE "update_read"]
    /\ UNCHANGED <<agentVars, verifierVars, parser, session>>

\* the finally block, lines 185-199: agent.save returns, or raises out of
\* the finally block
PredsSave(i) ==
    /\ batch.w[i].at = "save"
    /\ \/ batch' = [batch EXCEPT !.w[i].at = "update_read"]
       \/ batch' = [batch EXCEPT !.w[i].at = "raised"]
    /\ UNCHANGED <<agentVars, verifierVars, parser, session>>

\* update_preds_file, lines 111-114: the lock is taken and the file, if
\* there is one, read
PredsUpdateRead(i) ==
    /\ batch.w[i].at = "update_read"
    /\ LockFree(batch.lock)
    /\ batch' = [batch EXCEPT
                   !.lock = i,
                   !.w[i].local = IF batch.exists THEN batch.file
                                  ELSE [j \in DOMAIN batch.file |-> NoEntry],
                   !.w[i].at = "update_write"]
    /\ UNCHANGED <<agentVars, verifierVars, parser, session>>

\* lines 115-120: the entry is set in what was read and the file written;
\* the lock is released
PredsUpdateWrite(i) ==
    /\ batch.w[i].at = "update_write"
    /\ batch' = [batch EXCEPT
                   !.file = [batch.w[i].local EXCEPT
                               ![i] = PredsEntry(i, batch.w[i].result)],
                   !.exists = TRUE, !.lock = 0, !.w[i].at = "done"]
    /\ UNCHANGED <<agentVars, verifierVars, parser, session>>

PredsNext ==
    \E i \in PredsWorkers :
       \/ PredsRemoveCheck(i)
       \/ PredsRemoveRead(i)
       \/ PredsRemoveWrite(i)
       \/ PredsTry(i)
       \/ PredsSave(i)
       \/ PredsUpdateRead(i)
       \/ PredsUpdateWrite(i)

PredsSpec == PredsInit /\ [][PredsNext]_vars

\* the workers between reading preds.json and writing it back
PredsWriters ==
    {i \in PredsWorkers : batch.w[i].at \in {"remove_write", "update_write"}}

PredsAllFinished ==
    \A i \in PredsWorkers : batch.w[i].at \in {"done", "raised"}

\* C40: at most one worker is between its read and its write of
\* preds.json, and once all workers have finished the file holds, for every
\* instance whose processing reached its finally block, the entry with that
\* instance's result (the empty patch when it failed)
C40_PredsFileUpdatesAreExclusive ==
    batch.phase = "preds"
    => /\ Cardinality(PredsWriters) <= 1
       /\ PredsAllFinished
          => \A i \in PredsWorkers :
                batch.w[i].final
                => batch.file[i] = PredsEntry(i, batch.w[i].result)

====
